---- MODULE Spec2Model ----
(***************************************************************************)
(* Model of the Braintrust export pipeline: the backoff policy and retry   *)
(* executor of src/braintrust/rate-limiter.js and the cursor-paginated     *)
(* fetchers of src/unnamed/part_003.                                       *)
(*                                                                         *)
(* JavaScript numbers are modelled as exact rationals [num, den] (den > 0) *)
(* with the two special values NaN and +/-Infinity; strings that the code  *)
(* parses are sequences of one-character strings.                          *)
(***************************************************************************)
EXTENDS Integers, Sequences, FiniteSets, TLC

VARIABLES
    \* ---- withRetry (rate-limiter.js:92-163)
    wpc,            \* position of withRetry: idle | awaiting | sleeping | returned | thrown
    config,         \* the destructured config {maxRetries, initialBackoff, maxBackoff}
    attempt,        \* loop variable `attempt`
    lastError,      \* variable `lastError`
    calls,          \* number of times apiCall() has been invoked
    sleepCount,     \* number of suspensions started by withRetry
    lastSleep,      \* the last suspension: delay, useRetryAfter, which sleep function
    outcome,        \* what withRetry returned or threw
    trace,          \* order of invocations ("call") and suspensions ("sleep")
    callValue,      \* the value the last settled apiCall() resolved with
    \* ---- calculateBackoff as a pure function (rate-limiter.js:70-81)
    bk,             \* inputs drawn, and the result once applied
    \* ---- fetch*RecordsWithPagination (part_003:628-684, 714-771)
    fkind,          \* which generator: experiment | dataset
    fpc,            \* created | requesting | yielded | throttling | done | failed | closed
    cursor,         \* variable `cursor`
    hasMore,        \* variable `hasMore`, as a truth value
    totalFetched,   \* variable `totalFetched`
    lastLoggedCount,\* variable `lastLoggedCount`
    requestBody,    \* `requestBody` of the current iteration
    response,       \* `response` of the current iteration
    requests,       \* every body handed to axios.post, with the page it asks for
    pages,          \* every response withRetry returned to the fetcher
    batches,        \* every batch yielded to the consumer
    gaps,           \* per fetched page, the proactive delay that followed it (ms)
    pulls,          \* number of next() calls the consumer has made on the generator
    \* ---- streamCSVToFile (part_003:806-952)
    spc,            \* idle | iterating | returned | thrown
    input,          \* the `records` argument: an async iterable, or an array
    taken,          \* number of batches the for-await loop has received
    buffer,         \* variable `buffer`
    bufferPeak,     \* largest buffer.length reached during the run
    recordCount,    \* variable `recordCount`
    headers,        \* variable `headers`: null, or the array of column names
    hadTruncation,  \* variable `hadTruncation`
    schemaDriftDetected, \* variable `schemaDriftDetected`
    isBuffering,    \* variable `isBuffering`
    file,           \* the content of filePath: absent, or its lines
    summary,        \* what streamCSVToFile returned (or that it threw)
    delivered,      \* every record the input has delivered, in order
    fsLog,          \* the fs calls made: writeFileSync | appendFileSync
    warnings,       \* the newFields lists of the drift warnings logged
    locks,          \* every array assigned to `headers`
    \* ---- exportProjectData (part_003:1024-1094) and the menu (app.js:168-207)
    epc,            \* idle | projectsFor.. | experiments | datasets | exporting | returned | thrown
    isId,           \* parameter `isId`
    displayName,    \* variable `displayName`, the name the project directory is made from
    experiments,    \* variable `experiments`
    datasets,       \* variable `datasets`
    experimentCount,\* variable `experimentCount`: the position of the first loop
    datasetCount,   \* variable `datasetCount`: the position of the second loop
    dirs,           \* the directories that exist below outputDir
    disk,           \* the files below outputDir: path -> number of data rows
    run,            \* the export in progress: file path, fetcher and writer state
    inflight,       \* the remote requests that are outstanding
    active,         \* the entities whose streamCSVToFile call has not settled
    started,        \* the entities whose export was begun, in order
    ended,          \* the entities whose export ended, in order, with the outcome
    console,        \* the lines logged per entity
    report,         \* the closing lines of the run and what the menu shows
    fetched,        \* some page of records was requested
    gets,           \* the axios.get calls of the listing functions, in order
    listingError,   \* the error a listing request was rejected with, if any
    raised,         \* the error exportProjectData threw to its caller, if any
    \* ---- sanitizeFilename as a pure function (part_003:1102-1120)
    sf,             \* the arguments drawn, and the result once applied
    \* ---- flattenObject as a pure function (part_003:982-1014)
    fo,             \* the record drawn, and the results of two calls on it
    \* ---- the menu loop (app.js:22-218)
    cli             \* process.env, the .env file, the locals and the position of the loop

vars == <<wpc, config, attempt, lastError, calls, sleepCount, lastSleep, outcome,
          trace, callValue, bk, fkind, fpc, cursor, hasMore, totalFetched,
          lastLoggedCount, requestBody, response, requests, pages, batches, gaps,
          pulls, spc, input, taken, buffer, bufferPeak, recordCount, headers,
          hadTruncation, schemaDriftDetected, isBuffering, file, summary, delivered,
          fsLog, warnings, locks, epc, isId, displayName, experiments, datasets,
          experimentCount, datasetCount, dirs, disk, run, inflight, active, started,
          ended, console, report, fetched, gets, listingError, raised, sf, fo, cli>>

\* the variables of the helpers taken alone and of the menu
appVars == <<sf, fo, cli>>

retryVars == <<wpc, config, attempt, lastError, calls, sleepCount, lastSleep,
               outcome, trace, callValue>>

fetchVars == <<fkind, fpc, cursor, hasMore, totalFetched, lastLoggedCount, requestBody,
               response, requests, pages, batches, gaps, pulls>>

streamVars == <<spc, input, taken, buffer, bufferPeak, recordCount, headers,
                hadTruncation, schemaDriftDetected, isBuffering, file, summary,
                delivered, fsLog, warnings, locks>>

exportVars == <<epc, isId, displayName, experiments, datasets, experimentCount,
                datasetCount, dirs, disk, run, inflight, active, started, ended, console,
                report, fetched, gets, listingError, raised>>

(***************************************************************************)
(* Bounds of the model.                                                    *)
(***************************************************************************)
MaxRetriesBound == 2    \* largest maxRetries passed to withRetry (besides the default)
JitterSteps == 3        \* Math.random() is drawn from {0, 1/J, .., (J-1)/J}
MaxAttempt == 6         \* largest attemptNumber handed to calculateBackoff alone
InputScale == 2         \* initialBackoff / maxBackoff inputs lie on a grid of 1/InputScale ms
MaxPages == 3           \* pages fetched in one run of a fetcher
MaxRequests == 6        \* axios.post calls in one run of a fetcher
MaxBatches == 3         \* batches delivered to one run of streamCSVToFile
RetriedPages == 1       \* pages of an entity whose request may meet connection errors
MaxEntityPages == 2     \* pages fetched for one entity in a run of exportProjectData
TotalCap == 2000        \* totalFetched is counted up to TotalCap in SpecFetchLive

(***************************************************************************)
(* JavaScript numbers.                                                     *)
(***************************************************************************)
Rat(n, d) == [kind |-> "num", num |-> n, den |-> d]
NaN == [kind |-> "nan", num |-> 0, den |-> 1]
Inf(sign) == [kind |-> "inf", num |-> sign, den |-> 1]

isNaN(x) == x.kind = "nan"
\* x > 0 in JavaScript: false for NaN, true for +Infinity
GtZero(x) == x.kind # "nan" /\ x.num > 0

RMul(a, b) == Rat(a.num * b.num, a.den * b.den)
RAdd(a, b) == Rat(a.num * b.den + b.num * a.den, a.den * b.den)
RLeq(a, b) == a.num * b.den <= b.num * a.den
RLt(a, b) == a.num * b.den < b.num * a.den
RMin(a, b) == IF RLeq(a, b) THEN a ELSE b
\* Math.floor / Math.ceil of a finite number (\div rounds towards minus infinity)
RFloor(a) == a.num \div a.den
RCeil(a) == -((-a.num) \div a.den)

RECURSIVE Pow(_, _)
Pow(b, n) == IF n <= 0 THEN 1 ELSE b * Pow(b, n - 1)

(***************************************************************************)
(* parseFloat (rate-limiter.js:129): leading white space is skipped, then  *)
(* the longest prefix that is a decimal literal is converted; no such      *)
(* prefix gives NaN.                                                       *)
(***************************************************************************)
Digits == <<"0", "1", "2", "3", "4", "5", "6", "7", "8", "9">>
IsDigit(c) == \E i \in 1..10 : Digits[i] = c
DigitVal(c) == (CHOOSE i \in 1..10 : Digits[i] = c) - 1

RECURSIVE TrimLeft(_)
TrimLeft(s) == IF Len(s) > 0 /\ s[1] = " " THEN TrimLeft(Tail(s)) ELSE s

\* index of the first position at or after i that holds no digit
RECURSIVE DigitsEnd(_, _)
DigitsEnd(s, i) == IF i <= Len(s) /\ IsDigit(s[i]) THEN DigitsEnd(s, i + 1) ELSE i

\* value of the digits s[i..j-1]
RECURSIVE DigitsValue(_, _, _)
DigitsValue(s, i, j) ==
    IF j <= i THEN 0 ELSE DigitsValue(s, i, j - 1) * 10 + DigitVal(s[j - 1])

InfinityLiteral == <<"I", "n", "f", "i", "n", "i", "t", "y">>
StartsWith(s, p) == Len(s) >= Len(p) /\ SubSeq(s, 1, Len(p)) = p

\* the exponent part read at position m: e or E, optional sign, at least one digit
ExponentOf(u, m) ==
    IF m <= Len(u) /\ u[m] \in {"e", "E"}
    THEN LET signed == m + 1 <= Len(u) /\ u[m + 1] \in {"+", "-"}
             from == IF signed THEN m + 2 ELSE m + 1
             val == DigitsValue(u, from, DigitsEnd(u, from))
         IN  IF signed /\ u[m + 1] = "-" THEN 0 - val ELSE val
    ELSE 0

\* mantissa digits u[1..iEnd-1] and u[iEnd+1..fEnd-1], scaled by the exponent
DecimalValue(u, sign, iEnd, fEnd, expo) ==
    LET nFrac == IF fEnd > iEnd THEN fEnd - iEnd - 1 ELSE 0
        mant == DigitsValue(u, 1, iEnd) * Pow(10, nFrac) + DigitsValue(u, iEnd + 1, fEnd)
    IN  IF (iEnd - 1) + nFrac = 0 THEN NaN
        ELSE IF expo < 0 THEN Rat(sign * mant, Pow(10, nFrac) * Pow(10, 0 - expo))
        ELSE Rat(sign * mant * Pow(10, expo), Pow(10, nFrac))

\* u is the text after the sign; iEnd ends its integer digits
ParseDecimal(u, sign, iEnd) ==
    LET fEnd == IF iEnd <= Len(u) /\ u[iEnd] = "." THEN DigitsEnd(u, iEnd + 1) ELSE iEnd
    IN  DecimalValue(u, sign, iEnd, fEnd, ExponentOf(u, fEnd))

ParseUnsigned(u, sign) ==
    IF StartsWith(u, InfinityLiteral) THEN Inf(sign)
    ELSE ParseDecimal(u, sign, DigitsEnd(u, 1))

ParseSigned(t) ==
    IF Len(t) > 0 /\ t[1] \in {"+", "-"}
    THEN ParseUnsigned(Tail(t), IF t[1] = "-" THEN -1 ELSE 1)
    ELSE ParseUnsigned(t, 1)

parseFloat(s) == ParseSigned(TrimLeft(s))

(***************************************************************************)
(* Delays: a number of milliseconds, or Infinity.                          *)
(***************************************************************************)
Ms(n) == [inf |-> FALSE, ms |-> n]
InfiniteMs == [inf |-> TRUE, ms |-> 0]

\* mutant of ceilMs: rounds down instead of up
floorMs(x) == IF x.kind = "inf" THEN InfiniteMs ELSE Ms(RFloor(RMul(x, Rat(1000, 1))))

\* Math.ceil(retryAfter * 1000), rate-limiter.js:133
ceilMs(x) == IF x.kind = "inf" THEN InfiniteMs ELSE Ms(RCeil(RMul(x, Rat(1000, 1))))

(***************************************************************************)
(* calculateBackoff (rate-limiter.js:70-81). rnd is the value Math.random()*)
(* returned, a rational in [0, 1).                                         *)
(***************************************************************************)
exponentialDelay(attemptNumber, initialBackoff) ==
    RMul(Rat(Pow(2, attemptNumber), 1), initialBackoff)

\* mutant of cappedDelay: the cap at maxBackoff is forgotten
uncappedDelay(attemptNumber, initialBackoff, maxBackoff) ==
    exponentialDelay(attemptNumber, initialBackoff)

cappedDelay(attemptNumber, initialBackoff, maxBackoff) ==
    RMin(exponentialDelay(attemptNumber, initialBackoff), maxBackoff)

jitter(capped, rnd) == RMul(RMul(capped, Rat(1, 4)), rnd)

calculateBackoff(attemptNumber, initialBackoff, maxBackoff, rnd) ==
    LET capped == cappedDelay(attemptNumber, initialBackoff, maxBackoff)
    IN  RFloor(RAdd(capped, jitter(capped, rnd)))

RandomDraws == {Rat(k, JitterSteps) : k \in 0..(JitterSteps - 1)}

(***************************************************************************)
(* Errors thrown by the wrapped call. `id` tells the error objects apart:  *)
(* the k-th invocation of the call throws the object with id k.            *)
(*   hasResponse  error.response is defined                                *)
(*   status       error.response.status (NoStatus: undefined)              *)
(*   retryAfter   error.response.headers['retry-after']                    *)
(*   code         error.code ("none": undefined)                           *)
(***************************************************************************)
NoStatus == 0
NoHeader == [present |-> FALSE, text |-> <<>>]
Hdr(s) == [present |-> TRUE, text |-> s]

NoError == [id |-> 0, hasResponse |-> FALSE, status |-> NoStatus,
            retryAfter |-> NoHeader, code |-> "none", message |-> ""]

HeaderTexts ==
    { <<>>,                                   \* ""
      <<"2">>,
      <<"0", ".", "2", "9", "4">>,
      <<"0", ".", "2", "9", "4", "5">>,
      <<" ", "4", "5">>,
      <<"0">>,
      <<"-", "1">>,
      <<"a", "b", "c">>,
      <<"0", ".", "0">>,
      InfinityLiteral }

Headers == {NoHeader} \cup {Hdr(t) : t \in HeaderTexts}
Statuses == {NoStatus, 400, 404, 429, 500, 503}
Codes == {"none", "ECONNRESET", "ETIMEDOUT", "ENOTFOUND"}

\* every Retry-After value on a 429; the other statuses and the errors without a
\* response with every code, bare or carrying a valid Retry-After value
ErrorShapes ==
    [hasResponse : {TRUE}, status : {429}, retryAfter : Headers, code : {"none"}]
    \cup [hasResponse : {TRUE}, status : Statuses,
          retryAfter : {NoHeader, Hdr(<<"2">>)}, code : Codes]
    \cup [hasResponse : {FALSE}, status : {NoStatus}, retryAfter : {NoHeader},
          code : Codes]

MkError(shape, n) ==
    [id |-> n, hasResponse |-> shape.hasResponse, status |-> shape.status,
     retryAfter |-> shape.retryAfter, code |-> shape.code, message |-> "failed"]

Values == {"v1", "v2"}

(***************************************************************************)
(* The config argument of withRetry and its destructuring with defaults    *)
(* (rate-limiter.js:93-97).                                                *)
(***************************************************************************)
DefaultMaxRetries == 5
DefaultInitialBackoff == 500
DefaultMaxBackoff == 30000

Undefined == [given |-> FALSE, val |-> 0]
Given(v) == [given |-> TRUE, val |-> v]

\* withRetry(apiCall) with no config, and configs that give every field
Configs ==
    { [maxRetries |-> Undefined, initialBackoff |-> Undefined, maxBackoff |-> Undefined] }
    \cup { [maxRetries |-> Given(n), initialBackoff |-> Given(500),
            maxBackoff |-> Given(1000)] : n \in 0..MaxRetriesBound }

Destructure(cfg) ==
    [maxRetries |-> IF cfg.maxRetries.given THEN cfg.maxRetries.val
                    ELSE DefaultMaxRetries,
     initialBackoff |-> IF cfg.initialBackoff.given THEN cfg.initialBackoff.val
                        ELSE DefaultInitialBackoff,
     maxBackoff |-> IF cfg.maxBackoff.given THEN cfg.maxBackoff.val
                    ELSE DefaultMaxBackoff]

NoConfig == [maxRetries |-> 0, initialBackoff |-> 0, maxBackoff |-> 0]

(***************************************************************************)
(* The catch block of withRetry (rate-limiter.js:105-157).                 *)
(***************************************************************************)
isRateLimitError(error) == error.hasResponse /\ error.status = 429

\* mutant of shouldRetry: every HTTP error status is retried
shouldRetryAnyHttpError(error) ==
    \/ (error.hasResponse /\ error.status # NoStatus /\ error.status >= 400)
    \/ error.code = "ECONNRESET"
    \/ error.code = "ETIMEDOUT"

shouldRetry(error) ==
    \/ isRateLimitError(error)
    \/ (error.hasResponse /\ error.status # NoStatus /\ error.status >= 500)
    \/ error.code = "ECONNRESET"
    \/ error.code = "ETIMEDOUT"

\* error.response?.headers?.['retry-after'] is truthy: a non-empty string
hasRetryAfter(error) ==
    error.hasResponse /\ error.retryAfter.present /\ Len(error.retryAfter.text) > 0

\* lines 122-142: the delay and whether it came from the Retry-After header
backoffDecision(error, att, cfg, rnd) ==
    LET computed == Ms(calculateBackoff(att, Rat(cfg.initialBackoff, 1),
                                        Rat(cfg.maxBackoff, 1), rnd))
    IN  IF isRateLimitError(error) /\ hasRetryAfter(error)
        THEN LET retryAfter == parseFloat(error.retryAfter.text)
             IN  IF ~isNaN(retryAfter) /\ GtZero(retryAfter)
                 THEN [delay |-> ceilMs(retryAfter), useRetryAfter |-> TRUE]
                 ELSE [delay |-> computed, useRetryAfter |-> FALSE]
        ELSE [delay |-> computed, useRetryAfter |-> FALSE]

ProgressInterval == 10000

\* lines 145-157: which sleep function suspends the caller
sleepVia(b) ==
    IF b.useRetryAfter THEN "sleepWithProgress"
    ELSE IF b.delay.ms >= ProgressInterval THEN "sleepWithProgress"
    ELSE "sleep"

\* sleep(ms) resolves after ms; sleepWithProgress(ms) sleeps in chunks of at most
\* 10 s while elapsed < ms (lines 46-58): for the caller one await that ends once
\* ms have passed, and that never ends for ms = Infinity
sleepResolves(delay) == ~delay.inf

NoSleep == [delay |-> Ms(0), useRetryAfter |-> FALSE, via |-> "none", rnd |-> Rat(0, 1)]
\* a resolved value is held as <<v>>; <<>> while no apiCall() has resolved
NoValue == <<>>
NoOutcome == [kind |-> "none", value |-> NoValue, error |-> NoError]

\* the effect of `return await apiCall()` at line 104
returnValue(v) == [kind |-> "value", value |-> <<v>>, error |-> NoError]

\* mutant of throwError: a new Error built from the caught one is thrown
throwWrapped(error) ==
    [kind |-> "error", value |-> NoValue,
     error |-> [error EXCEPT !.hasResponse = FALSE, !.status = NoStatus,
                             !.retryAfter = NoHeader, !.message = "wrapped"]]

\* the effect of `throw error` at line 119
throwError(error) == [kind |-> "error", value |-> NoValue, error |-> error]

\* the state of withRetry after apiCall() rejected with `error`
AfterReject(error, rnd) ==
    IF ~shouldRetry(error) \/ attempt = config.maxRetries
    THEN [wpc |-> "thrown", outcome |-> throwError(error), sleepCount |-> sleepCount,
          lastSleep |-> lastSleep, trace |-> trace]
    ELSE LET b == backoffDecision(error, attempt, config, rnd)
         IN  [wpc |-> "sleeping", outcome |-> outcome, sleepCount |-> sleepCount + 1,
              lastSleep |-> [delay |-> b.delay, useRetryAfter |-> b.useRetryAfter,
                             via |-> sleepVia(b),
                             rnd |-> IF b.useRetryAfter THEN Rat(0, 1) ELSE rnd],
              trace |-> Append(trace, "sleep")]

(***************************************************************************)
(* The steps of withRetry, shared by its callers.                          *)
(***************************************************************************)

\* withRetry(apiCall, cfg) is called and runs to `await apiCall()` (line 104)
WithRetryEnters(cfg) ==
    /\ config' = Destructure(cfg)
    /\ attempt' = 0
    /\ lastError' = NoError
    /\ calls' = 1
    /\ sleepCount' = 0
    /\ lastSleep' = NoSleep
    /\ outcome' = NoOutcome
    /\ trace' = <<"call">>
    /\ callValue' = NoValue
    /\ wpc' = "awaiting"

\* apiCall() resolves with v: `return await apiCall()`
WithRetryReturns(v) ==
    /\ wpc' = "returned"
    /\ callValue' = <<v>>
    /\ outcome' = returnValue(v)
    /\ UNCHANGED <<config, attempt, lastError, calls, sleepCount, lastSleep, trace>>

\* apiCall() rejects with error: the catch block runs up to the throw or the sleep
WithRetryCatches(error, rnd) ==
    LET next == AfterReject(error, rnd)
    IN  /\ lastError' = error
        /\ wpc' = next.wpc
        /\ outcome' = next.outcome
        /\ sleepCount' = next.sleepCount
        /\ lastSleep' = next.lastSleep
        /\ trace' = next.trace
        /\ UNCHANGED <<config, attempt, calls, callValue>>

\* a loop that invokes apiCall() twice after a suspension
WithRetryWakesCallingTwice ==
    /\ wpc = "sleeping"
    /\ sleepResolves(lastSleep.delay)
    /\ attempt' = attempt + 1
    /\ calls' = calls + 2
    /\ trace' = trace \o <<"call", "call">>
    /\ wpc' = "awaiting"
    /\ UNCHANGED <<config, lastError, sleepCount, lastSleep, outcome, callValue>>

\* the suspension ends: attempt++ and the next iteration invokes apiCall()
WithRetryWakes ==
    /\ wpc = "sleeping"
    /\ sleepResolves(lastSleep.delay)
    /\ attempt' = attempt + 1
    /\ calls' = calls + 1
    /\ trace' = Append(trace, "call")
    /\ wpc' = "awaiting"
    /\ UNCHANGED <<config, lastError, sleepCount, lastSleep, outcome, callValue>>

RetryIdle ==
    /\ wpc = "idle"
    /\ config = NoConfig
    /\ attempt = 0
    /\ lastError = NoError
    /\ calls = 0
    /\ sleepCount = 0
    /\ lastSleep = NoSleep
    /\ outcome = NoOutcome
    /\ trace = <<>>
    /\ callValue = NoValue

BkIdle == [phase |-> "idle", attemptNumber |-> 0, initialBackoff |-> Rat(0, 1),
           maxBackoff |-> Rat(0, 1), rnd |-> Rat(0, 1), result |-> 0]

(***************************************************************************)
(* The paginated fetchers fetchExperimentRecordsWithPagination and         *)
(* fetchDatasetRecordsWithPagination (part_003:628-684, 714-771).          *)
(*                                                                         *)
(* An array of records is modelled by a tag naming its content and by its  *)
(* length: the fetchers read only `.length` and hand the array on.         *)
(***************************************************************************)
PageLimit == 1000
ThrottleAfter == 1000
ProactiveDelayMs == 3000
FetchMaxRetries == 4
FetchInitialBackoff == 2000
FetchMaxBackoff == 120000

FetchConfig ==
    [maxRetries |-> Given(FetchMaxRetries), initialBackoff |-> Given(FetchInitialBackoff),
     maxBackoff |-> Given(FetchMaxBackoff)]

\* JavaScript values of a cursor
Null == [kind |-> "null", text |-> ""]
Undef == [kind |-> "undefined", text |-> ""]
Str(t) == [kind |-> "string", text |-> t]
Truthy(c) == c.kind = "string" /\ c.text # ""

NoArray == [defined |-> FALSE, tag |-> "", length |-> 0]
Array(tag, n) == [defined |-> TRUE, tag |-> tag, length |-> n]
EmptyArray == Array("", 0)

\* response.data of the fetch endpoint: null, or an object with the optional
\* fields events, records and cursor
NullData == [isNull |-> TRUE, events |-> NoArray, records |-> NoArray, cursor |-> Undef]

RecordArrays == {Array("ab", 2), Array("short", PageLimit - 2), Array("full", PageLimit)}

PageData ==
    {NullData}
    \cup [isNull : {FALSE}, events : {NoArray, EmptyArray} \cup RecordArrays,
          records : {NoArray}, cursor : {Null, Str(""), Str("x"), Str("y")}]
    \cup [isNull : {FALSE}, events : {NoArray}, records : {Array("ab", 2)},
          cursor : {Null, Str("x")}]

\* the errors axios.post rejects with
AxiosErrorShapes ==
    { [hasResponse |-> TRUE, status |-> 429, retryAfter |-> Hdr(<<"2">>), code |-> "none"],
      [hasResponse |-> TRUE, status |-> 503, retryAfter |-> NoHeader, code |-> "none"],
      [hasResponse |-> TRUE, status |-> 404, retryAfter |-> NoHeader, code |-> "none"],
      [hasResponse |-> FALSE, status |-> NoStatus, retryAfter |-> NoHeader,
       code |-> "ECONNRESET"],
      [hasResponse |-> FALSE, status |-> NoStatus, retryAfter |-> NoHeader,
       code |-> "ENOTFOUND"] }

\* Math.random() in a fetcher run: the least and the largest draw
FetchDraws == {Rat(0, JitterSteps), Rat(JitterSteps - 1, JitterSteps)}

\* a catch block that throws new Error(`API Error: ...`) without the response
makePostRequestDropsResponse(error) ==
    IF error.hasResponse
    THEN [id |-> error.id, hasResponse |-> FALSE, status |-> NoStatus,
          retryAfter |-> NoHeader, code |-> "none",
          message |-> "API Error: " \o ToString(error.status)]
    ELSE error

\* the catch block of makePostRequest (part_003:436-446; makeRequest has the same
\* one, 410-419): an error with a response is replaced by
\* new Error(`API Error: ${status} - ...`) that is given the response (and so its
\* status and headers) but not the code of the original; any other error is
\* rethrown
makePostRequestCatch(error) ==
    IF error.hasResponse
    THEN [id |-> error.id, hasResponse |-> TRUE, status |-> error.status,
          retryAfter |-> error.retryAfter, code |-> "none",
          message |-> "API Error: " \o ToString(error.status)]
    ELSE error

\* the array the fetcher takes as the page's records: response.events
\* (part_003:658), or response?.events || response?.records || [] (part_003:744)
pageRecords(kind, resp) ==
    IF kind = "experiment"
    THEN IF ~resp.isNull /\ resp.events.defined THEN resp.events ELSE NoArray
    ELSE IF resp.events.defined THEN resp.events
         ELSE IF resp.records.defined THEN resp.records
         ELSE EmptyArray

\* mutant of yieldsBatch: a batch is yielded for every page that has an array
yieldsEveryArray(kind, resp) == pageRecords(kind, resp).defined

\* the condition guarding `yield` (part_003:658, 746)
yieldsBatch(kind, resp) == pageRecords(kind, resp).length > 0

\* response?.cursor (part_003:670, 758)
cursorOf(resp) == IF resp.isNull THEN Undef ELSE resp.cursor

\* mutant of hasMoreAfter: only the cursor decides
hasMoreByCursor(kind, resp) == Truthy(cursorOf(resp))

\* hasMore (part_003:671, 759), as a truth value
hasMoreAfter(kind, resp) ==
    Truthy(cursorOf(resp)) /\ pageRecords(kind, resp).length > 0

\* mutant of throttles: the threshold is exclusive
throttlesAbove(more, total) == more /\ total > ThrottleAfter

\* the condition guarding the proactive sleep (part_003:676, 763)
throttles(more, total) == more /\ total >= ThrottleAfter

\* mutant of bodyFor: the cursor is never sent
bodyWithoutCursor(cur) == [limit |-> PageLimit, cursor |-> Undef]

\* requestBody (part_003:636-642, 722-728): the cursor is set only when truthy
bodyFor(cur) == [limit |-> PageLimit, cursor |-> IF Truthy(cur) THEN cur ELSE Undef]

FetchIdle ==
    /\ fkind = "none"
    /\ fpc = "idle"
    /\ cursor = Null
    /\ hasMore = TRUE
    /\ totalFetched = 0
    /\ lastLoggedCount = 0
    /\ requestBody = bodyFor(Null)
    /\ response = NullData
    /\ requests = <<>>
    /\ pages = <<>>
    /\ batches = <<>>
    /\ gaps = <<>>
    /\ pulls = 0

(***************************************************************************)
(* Records and flattenObject (part_003:982-1014).                          *)
(*                                                                         *)
(* A JavaScript object is the sequence of its fields [key, val] in         *)
(* insertion order (the keys used are no integer indices, which JavaScript *)
(* would enumerate first). A key and a key path are sequences of           *)
(* one-character strings. A string value is a sequence of pieces whose     *)
(* concatenation is the string; an array is a sequence of runs of equal    *)
(* items, each item given by its JSON text and the length of that text.    *)
(***************************************************************************)
Num(n) == [t |-> "number", n |-> n]
Text(parts) == [t |-> "string", parts |-> parts]
Obj(fields) == [t |-> "object", fields |-> fields]
Arr(items, circular) == [t |-> "array", items |-> items, circular |-> circular]
Field(k, v) == [key |-> k, val |-> v]
Item(text, chars, count) == [text |-> text, chars |-> chars, count |-> count]

ArrayItemLimit == 1000
StringifiedLimit == 100000
BytesPerKB == 1024

\* array.length
RECURSIVE arrayLength(_)
arrayLength(items) ==
    IF items = <<>> THEN 0 ELSE Head(items).count + arrayLength(Tail(items))

\* the characters of all items of the array
RECURSIVE itemChars(_)
itemChars(items) ==
    IF items = <<>> THEN 0
    ELSE Head(items).count * Head(items).chars + itemChars(Tail(items))

\* JSON.stringify(array).length: the brackets, the items and the commas between
stringifiedLength(items) ==
    LET n == arrayLength(items)
    IN  2 + itemChars(items) + (IF n > 0 THEN n - 1 ELSE 0)

\* the text of the k-th item of the array
RECURSIVE itemText(_, _)
itemText(items, k) ==
    IF k <= Head(items).count THEN Head(items).text
    ELSE itemText(Tail(items), k - Head(items).count)

\* the texts of the items, in order
itemTexts(items) == [k \in 1..arrayLength(items) |-> itemText(items, k)]

\* texts.join(","), as pieces: the texts with a comma between two of them
joinWithCommas(texts) ==
    [i \in 1..(IF Len(texts) = 0 THEN 0 ELSE 2 * Len(texts) - 1) |->
        IF i % 2 = 1 THEN texts[(i + 1) \div 2] ELSE ","]

\* JSON.stringify(array), as pieces
stringify(items) == <<"[">> \o joinWithCommas(itemTexts(items)) \o <<"]">>

\* Math.round(n / 1024)
roundKB(n) == (2 * n + BytesPerKB) \div (2 * BytesPerKB)

\* an array field that is stringified whatever its length and size
flattenArrayUnlimited(a) ==
    IF a.circular
    THEN Text(<<"[", "Error serializing", " array: ",
                "Converting circular structure to JSON", "]">>)
    ELSE Text(stringify(a.items))

\* the value stored for an array field (part_003:988-1007)
flattenArray(a) ==
    IF arrayLength(a.items) > ArrayItemLimit
    THEN Text(<<"[Array with ", ToString(arrayLength(a.items)), " items - ",
                "truncated for export", "]">>)
    ELSE IF a.circular
    THEN Text(<<"[", "Error serializing", " array: ",
                "Converting circular structure to JSON", "]">>)
    ELSE IF stringifiedLength(a.items) > StringifiedLimit
    THEN Text(<<"[Array data too large (", ToString(roundKB(stringifiedLength(a.items))),
                "KB) - ", "truncated for export", "]">>)
    ELSE Text(stringify(a.items))

\* result[newKey] = value: an existing key keeps its place
setProp(result, k, v) ==
    IF \E i \in DOMAIN result : result[i].key = k
    THEN [i \in DOMAIN result |-> IF result[i].key = k THEN Field(k, v) ELSE result[i]]
    ELSE Append(result, Field(k, v))

\* the loop of flattenObject over the fields of obj, with `prefix` and `result`
RECURSIVE flattenFields(_, _, _)
flattenFields(fields, prefix, result) ==
    IF fields = <<>> THEN result
    ELSE LET f == Head(fields)
             newKey == IF prefix # <<>> THEN prefix \o <<".">> \o f.key ELSE f.key
             after == IF f.val.t = "object"
                      THEN flattenFields(f.val.fields, newKey, result)
                      ELSE IF f.val.t = "array"
                      THEN setProp(result, newKey, flattenArray(f.val))
                      ELSE setProp(result, newKey, f.val)
         IN  flattenFields(Tail(fields), prefix, after)

flattenObject(obj) == flattenFields(obj.fields, <<>>, <<>>)

\* Object.keys(record)
objectKeys(record) == [i \in DOMAIN record |-> record[i].key]

\* value.includes(needle), for a needle that is one of the pieces
includes(value, needle) == \E i \in DOMAIN value.parts : value.parts[i] = needle

\* the truncation check of streamCSVToFile (part_003:836-842, 873-879)
isTruncationMarker(value) ==
    /\ value.t = "string"
    /\ (includes(value, "truncated for export") \/ includes(value, "Error serializing"))

hasTruncatedValue(record) == \E i \in DOMAIN record : isTruncationMarker(record[i].val)

(***************************************************************************)
(* Arrays of records, as runs of equal records.                            *)
(***************************************************************************)
Run(rec, count) == [rec |-> rec, count |-> count]

\* array.length
RECURSIVE Length(_)
Length(runs) == IF runs = <<>> THEN 0 ELSE Head(runs).count + Length(Tail(runs))

\* array.map(item => flattenObject(item))
flattenAll(runs) ==
    [i \in DOMAIN runs |-> Run(flattenObject(runs[i].rec), runs[i].count)]

(***************************************************************************)
(* The header array (part_003:846-851, 920-925): the keys of the flattened *)
(* records are added to a Set and the Set's array is sorted with the       *)
(* default comparison, the order of UTF-16 code units.                     *)
(***************************************************************************)
CodeUnit ==
    ("." :> 46) @@ ("Z" :> 90) @@ ("a" :> 97) @@ ("b" :> 98) @@ ("c" :> 99)
    @@ ("n" :> 110) @@ ("w" :> 119) @@ ("x" :> 120) @@ ("y" :> 121) @@ ("z" :> 122)

\* a < b as strings
RECURSIVE KeyLess(_, _)
KeyLess(a, b) ==
    IF b = <<>> THEN FALSE
    ELSE IF a = <<>> THEN TRUE
    ELSE IF CodeUnit[Head(a)] # CodeUnit[Head(b)] THEN CodeUnit[Head(a)] < CodeUnit[Head(b)]
    ELSE KeyLess(Tail(a), Tail(b))

\* headerSet.add(key) for every key, in order: a Set keeps first occurrences
RECURSIVE addAll(_, _)
addAll(headerSet, keys) ==
    IF keys = <<>> THEN headerSet
    ELSE addAll(IF \E i \in DOMAIN headerSet : headerSet[i] = Head(keys)
                THEN headerSet ELSE Append(headerSet, Head(keys)),
                Tail(keys))

RECURSIVE keysOfAll(_, _)
keysOfAll(flattened, headerSet) ==
    IF flattened = <<>> THEN headerSet
    ELSE keysOfAll(Tail(flattened), addAll(headerSet, objectKeys(Head(flattened).rec)))

RECURSIVE insertKey(_, _)
insertKey(sorted, k) ==
    IF sorted = <<>> THEN <<k>>
    ELSE IF KeyLess(k, Head(sorted)) THEN <<k>> \o sorted
    ELSE <<Head(sorted)>> \o insertKey(Tail(sorted), k)

\* Array.from(headerSet).sort()
RECURSIVE sortKeys(_)
sortKeys(keys) ==
    IF keys = <<>> THEN <<>> ELSE insertKey(sortKeys(Tail(keys)), Head(keys))

\* mutant of extractHeaders: the keys stay in the order they were first seen
extractHeadersUnsorted(flattened) == keysOfAll(flattened, <<>>)

extractHeaders(flattened) == sortKeys(keysOfAll(flattened, <<>>))

(***************************************************************************)
(* The CSV lines that Parser (@json2csv/plainjs) produces: with            *)
(* {fields: headers} one header line and one row per record, with          *)
(* {header: false, fields: headers} the rows alone. A row has one cell per *)
(* field, empty where the record lacks the key.                            *)
(***************************************************************************)
EmptyCell == [t |-> "empty"]

getProp(record, k) ==
    IF \E i \in DOMAIN record : record[i].key = k
    THEN record[CHOOSE i \in DOMAIN record : record[i].key = k].val
    ELSE EmptyCell

HeaderLine(fields) == [kind |-> "header", cells |-> fields, count |-> 1]

RowOf(fields, record, count) ==
    [kind |-> "row", cells |-> [i \in DOMAIN fields |-> getProp(record, fields[i])],
     count |-> count]

rowsOf(fields, flattened) ==
    [i \in DOMAIN flattened |-> RowOf(fields, flattened[i].rec, flattened[i].count)]

parseWithHeader(fields, flattened) == <<HeaderLine(fields)>> \o rowsOf(fields, flattened)

\* mutant of parseRows: the rows get a column for every key of their record
parseRowsAllKeys(fields, flattened) ==
    [i \in DOMAIN flattened |->
        RowOf(sortKeys(addAll(fields, objectKeys(flattened[i].rec))),
              flattened[i].rec, flattened[i].count)]

\* mutant of parseRows: the option {header: false} is ignored
parseRowsWithHeader(fields, flattened) == <<HeaderLine(fields)>> \o rowsOf(fields, flattened)

parseRows(fields, flattened) == rowsOf(fields, flattened)

(***************************************************************************)
(* streamCSVToFile (part_003:806-952).                                     *)
(***************************************************************************)
INITIAL_BUFFER_SIZE == 1000

NoHeaders == [isNull |-> TRUE, fields |-> <<>>]
HeadersArray(fields) == [isNull |-> FALSE, fields |-> fields]

NoFile == [exists |-> FALSE, lines |-> <<>>]
NoSummary == [kind |-> "none", recordCount |-> 0, hadTruncation |-> FALSE,
              schemaDriftDetected |-> FALSE]

\* fs.writeFileSync(filePath, csv): the file holds the lines of csv
writeFileSync(f, lines) == [exists |-> TRUE, lines |-> lines]

\* mutant of appendFileSync: the content is replaced
appendOverwrites(f, lines) == [exists |-> TRUE, lines |-> lines]

\* mutant of appendFileSync: the new lines are put before the rows already there
appendOnTop(f, lines) ==
    [exists |-> TRUE,
     lines |-> IF f.lines = <<>> THEN lines
               ELSE <<Head(f.lines)>> \o lines \o Tail(f.lines)]

\* fs.appendFileSync(filePath, '\n' + csv): the lines of csv follow the content
appendFileSync(f, lines) == [exists |-> TRUE, lines |-> f.lines \o lines]

\* newFields (part_003:884-891): the keys not in headers, each once, in order
RECURSIVE collectNewFields(_, _, _)
collectNewFields(keys, fields, newFields) ==
    IF keys = <<>> THEN newFields
    ELSE collectNewFields(
            Tail(keys), fields,
            IF (\E i \in DOMAIN fields : fields[i] = Head(keys))
               \/ (\E i \in DOMAIN newFields : newFields[i] = Head(keys))
            THEN newFields ELSE Append(newFields, Head(keys)))

\* mutant of newFieldsOf: only the first record of the batch is inspected
newFieldsOfFirst(flattened, fields, newFields) ==
    collectNewFields(objectKeys(Head(flattened).rec), fields, newFields)

RECURSIVE newFieldsOf(_, _, _)
newFieldsOf(flattened, fields, newFields) ==
    IF flattened = <<>> THEN newFields
    ELSE newFieldsOf(Tail(flattened), fields,
                     collectNewFields(objectKeys(Head(flattened).rec), fields, newFields))

\* mutant of warnsOfDrift: every batch that brings new fields is warned about
warnsOfDriftEveryBatch(newFields, drifted) == Len(newFields) > 0

\* the condition of the drift warning (part_003:894)
warnsOfDrift(newFields, drifted) == Len(newFields) > 0 /\ ~drifted

\* mutant of buffered: the end-of-input write is made for an empty buffer too
bufferedAlways(buffering, buf) == buffering

\* the condition of the end-of-input write (part_003:917)
buffered(buffering, buf) == buffering /\ Length(buf) > 0

anyTruncated(flattened) == \E i \in DOMAIN flattened : hasTruncatedValue(flattened[i].rec)

StreamIdle ==
    /\ spc = "idle"
    /\ input = "none"
    /\ taken = 0
    /\ buffer = <<>>
    /\ bufferPeak = 0
    /\ recordCount = 0
    /\ headers = NoHeaders
    /\ hadTruncation = FALSE
    /\ schemaDriftDetected = FALSE
    /\ isBuffering = TRUE
    /\ file = NoFile
    /\ summary = NoSummary
    /\ delivered = <<>>
    /\ fsLog = <<>>
    /\ warnings = <<>>
    /\ locks = <<>>

(***************************************************************************)
(* sanitizeFilename (part_003:1102-1120). A string is the sequence of its  *)
(* characters.                                                             *)
(***************************************************************************)
IdSuffixLength == 8

\* the characters matched by /[a-z0-9]/i among those the names and ids use
LowerLetters == <<"a", "b", "c", "d", "e", "f", "g", "h", "i", "j", "k", "l", "m",
                  "n", "o", "p", "q", "r", "s", "t", "u", "v", "w", "x", "y", "z">>
UpperLetters == <<"A", "B", "C", "D", "E", "F", "G", "H", "I", "J", "K", "L", "M",
                  "N", "O", "P", "Q", "R", "S", "T", "U", "V", "W", "X", "Y", "Z">>
\* the characters /[a-z0-9]/i matches
AlnumChars ==
    {LowerLetters[i] : i \in 1..26} \cup {UpperLetters[i] : i \in 1..26}
        \cup {Digits[i] : i \in 1..10}

\* String.prototype.toLowerCase, on the ASCII letters
LowerCaseOf == [c \in {UpperLetters[i] : i \in 1..26} |->
                   LowerLetters[CHOOSE i \in 1..26 : UpperLetters[i] = c]]

\* name.replace(/[^a-z0-9]/gi, '_')
replaceNonAlnum(name) == [i \in DOMAIN name |-> IF name[i] \in AlnumChars THEN name[i] ELSE "_"]

toLowerCase(s) ==
    [i \in DOMAIN s |-> IF s[i] \in DOMAIN LowerCaseOf THEN LowerCaseOf[s[i]] ELSE s[i]]

\* sanitized.replace(/_+/g, '_')
RECURSIVE collapseUnderscores(_)
collapseUnderscores(s) ==
    IF Len(s) <= 1 THEN s
    ELSE IF s[1] = "_" /\ s[2] = "_" THEN collapseUnderscores(Tail(s))
    ELSE <<s[1]>> \o collapseUnderscores(Tail(s))

RECURSIVE trimLeading(_)
trimLeading(s) == IF s # <<>> /\ Head(s) = "_" THEN trimLeading(Tail(s)) ELSE s

RECURSIVE trimTrailing(_)
trimTrailing(s) ==
    IF s # <<>> /\ s[Len(s)] = "_" THEN trimTrailing(SubSeq(s, 1, Len(s) - 1)) ELSE s

\* a trim of the leading underscores alone
trimLeadingOnly(s) == trimLeading(s)

\* sanitized.replace(/^_+|_+$/g, '')
trimUnderscores(s) == trimTrailing(trimLeading(s))

\* id.substring(0, 8)
idSuffix(id) == SubSeq(id, 1, IF Len(id) < IdSuffixLength THEN Len(id) ELSE IdSuffixLength)

\* the id parameter is null by default; null and '' are both falsy
NoId == <<>>

sanitizeFilename(name, id) ==
    LET cleaned == trimUnderscores(collapseUnderscores(toLowerCase(replaceNonAlnum(name))))
        sanitized == IF cleaned = <<>>
                     THEN IF id # NoId THEN idSuffix(id) ELSE <<"u", "n", "n", "a", "m", "e", "d">>
                     ELSE cleaned
    IN  IF id # NoId THEN sanitized \o <<"_">> \o idSuffix(id) ELSE sanitized

\* no call of sanitizeFilename is under way
SfIdle == [phase |-> "idle", name |-> <<>>, id |-> <<>>, result |-> <<>>]

\* no call of flattenObject is under way
FoIdle == [phase |-> "idle", record |-> Obj(<<>>), first |-> <<>>, second |-> <<>>]

\* app.js is not running
NoSnapshot == [key |-> "", name |-> "", id |-> ""]
NoCall == [called |-> FALSE, apiKey |-> "", projectNameOrId |-> "", outputDir |-> "",
           isId |-> FALSE, projectName |-> ""]
CliIdle ==
    [pc |-> "idle", BRAINTRUST_API_KEY |-> "", BRAINTRUST_PROJECT_NAME |-> "",
     BRAINTRUST_PROJECT_ID |-> "", envFile |-> "", typed |-> <<>>, apiKey |-> "",
     projects |-> <<>>,
     projectId |-> "", retryCount |-> 0, before |-> NoSnapshot, shown |-> "none",
     exported |-> NoCall]

AppIdle == sf = SfIdle /\ fo = FoIdle /\ cli = CliIdle

(***************************************************************************)
(* createProjectDirectories (part_003:372-387). A directory is the         *)
(* sequence of its segments below outputDir.                               *)
(***************************************************************************)
projectDirOf(projectName) == <<sanitizeFilename(projectName, NoId)>>
datasetsDirOf(projectName) == projectDirOf(projectName) \o <<"datasets">>
experimentsDirOf(projectName) == projectDirOf(projectName) \o <<"experiments">>

\* fs.mkdirSync(dir, {recursive: true}): the directory and its parents exist
\* afterwards; a directory that exists already is no error
mkdirSync(existing, dir) == existing \cup {SubSeq(dir, 1, n) : n \in 1..Len(dir)}

\* the calls of fs.mkdirSync in createProjectDirectories
MkdirCalls == 2

createProjectDirectories(existing, projectName) ==
    mkdirSync(mkdirSync(existing, datasetsDirOf(projectName)), experimentsDirOf(projectName))

(***************************************************************************)
(* The entities the listing calls may return, and the pages of records the *)
(* service may return for one of them. Here a page is the number of its    *)
(* records; SpecFetch and SpecStream hold the fetcher and the writer in    *)
(* full.                                                                   *)
(***************************************************************************)
Id(d, s) == <<"0", "0", "0", "0", "0", "0", "0", d, "-", s>>
Entity(id, name) == [id |-> id, name |-> name]

EntRun1 == Entity(Id("1", "a"), <<"R", "u", "n", " ", "1">>)
\* another id with the same first eight characters, and a name that differs
EntRun1Twin == Entity(Id("1", "b"), <<"r", "u", "n", "_", "1">>)
\* the same name under another id
EntRun1Again == Entity(Id("2", "a"), <<"R", "u", "n", " ", "1">>)
\* an entity without a name
EntNoName == Entity(Id("3", "a"), <<>>)

ExperimentLists ==
    { <<>>, <<EntRun1>>, <<EntRun1, EntRun1Again>>, <<EntRun1, EntRun1Twin>> }
DatasetLists == { <<>>, <<EntNoName>> }

ProjectNames == { <<"R", "u", "n", " ", "1">>, <<"-">> }

PageSizes == {0, 600, PageLimit}

\* experiment.name || experiment.id
nameOrId(e) == IF e.name # <<>> THEN e.name ELSE e.id

\* no export is in progress
RunNone ==
    [kind |-> "none", idx |-> 0, filePath |-> [dir |-> <<>>, name |-> <<>>],
     fst |-> "none", page |-> 0, attempt |-> 0, totalFetched |-> 0, buffered |-> 0,
     isBuffering |-> TRUE, recordCount |-> 0]

ExportIdle ==
    /\ epc = "idle"
    /\ isId = FALSE
    /\ displayName = <<>>
    /\ experiments = <<>>
    /\ datasets = <<>>
    /\ experimentCount = 0
    /\ datasetCount = 0
    /\ dirs = {}
    /\ disk = <<>>
    /\ run = RunNone
    /\ inflight = {}
    /\ active = {}
    /\ started = <<>>
    /\ ended = <<>>
    /\ console = <<>>
    /\ report = <<>>
    /\ fetched = FALSE
    /\ gets = <<>>
    /\ listingError = NoError
    /\ raised = NoError

(***************************************************************************)
(* withRetry around an arbitrary call.                                     *)
(***************************************************************************)
CallWithRetry(cfg) ==
    /\ wpc = "idle"
    /\ WithRetryEnters(cfg)
    /\ UNCHANGED <<bk, appVars, exportVars, fetchVars, streamVars>>

ApiCallResolves(v) ==
    /\ wpc = "awaiting"
    /\ WithRetryReturns(v)
    /\ UNCHANGED <<bk, appVars, exportVars, fetchVars, streamVars>>

ApiCallRejects(shape, rnd) ==
    /\ wpc = "awaiting"
    /\ WithRetryCatches(MkError(shape, calls), rnd)
    /\ UNCHANGED <<bk, appVars, exportVars, fetchVars, streamVars>>

SleepResolves ==
    /\ WithRetryWakes
    /\ UNCHANGED <<bk, appVars, exportVars, fetchVars, streamVars>>

InitRetry == RetryIdle /\ bk = BkIdle /\ FetchIdle /\ StreamIdle /\ ExportIdle /\ AppIdle

NextRetry ==
    \/ \E cfg \in Configs : CallWithRetry(cfg)
    \/ \E v \in Values : ApiCallResolves(v)
    \/ \E shape \in ErrorShapes, rnd \in RandomDraws : ApiCallRejects(shape, rnd)
    \/ SleepResolves

SpecRetry == InitRetry /\ [][NextRetry]_vars

(***************************************************************************)
(* calculateBackoff alone, on inputs drawn from bounded sets.              *)
(***************************************************************************)
InitialBackoffs == {Rat(n, InputScale) : n \in {1, 3, 1000, 4000}}
MaxBackoffs == {Rat(n, InputScale) : n \in {1, 5, 60001, 240000}}

InitBackoff ==
    /\ RetryIdle
    /\ FetchIdle
    /\ StreamIdle
    /\ ExportIdle
    /\ AppIdle
    /\ bk \in [phase : {"drawn"}, attemptNumber : 0..MaxAttempt,
               initialBackoff : InitialBackoffs, maxBackoff : MaxBackoffs,
               rnd : RandomDraws, result : {0}]

ApplyCalculateBackoff ==
    /\ bk.phase = "drawn"
    /\ bk' = [bk EXCEPT !.phase = "applied",
                        !.result = calculateBackoff(bk.attemptNumber, bk.initialBackoff,
                                                    bk.maxBackoff, bk.rnd)]
    /\ UNCHANGED <<appVars, retryVars, fetchVars, streamVars, exportVars>>

NextBackoff == ApplyCalculateBackoff

SpecBackoff == InitBackoff /\ [][NextBackoff]_vars

(***************************************************************************)
(* The steps of a fetcher. The generator runs from one suspension to the   *)
(* next: the await of axios.post inside withRetry, the backoff sleep, the  *)
(* yield, and the proactive sleep.                                         *)
(***************************************************************************)
\* the loop body up to `await withRetry(...)`: part_003:636-655, 722-741
LoopHead(cur, total) ==
    /\ Len(pages) < MaxPages
    /\ Len(requests) < MaxRequests
    /\ requestBody' = bodyFor(cur)
    /\ lastLoggedCount' = IF total > 0 /\ total # lastLoggedCount THEN total
                          ELSE lastLoggedCount
    /\ WithRetryEnters(FetchConfig)
    /\ requests' = Append(requests, [page |-> Len(pages) + 1, body |-> bodyFor(cur)])
    /\ fpc' = "requesting"

\* the end of the loop body for the page resp: part_003:669-679, 757-766.
\* `settled` is what becomes of withRetry when no further request is issued.
EndOfIteration(resp, total, settled) ==
    LET more == hasMoreAfter(fkind, resp)
    IN  /\ cursor' = cursorOf(resp)
        /\ hasMore' = more
        /\ IF throttles(more, total)
           THEN /\ fpc' = "throttling"
                /\ gaps' = Append(gaps, ProactiveDelayMs)
                /\ settled
                /\ UNCHANGED <<requestBody, lastLoggedCount, requests>>
           ELSE IF more
           THEN /\ gaps' = Append(gaps, 0)
                /\ LoopHead(cursorOf(resp), total)
           ELSE /\ fpc' = "done"
                /\ gaps' = Append(gaps, 0)
                /\ settled
                /\ UNCHANGED <<requestBody, lastLoggedCount, requests>>

\* the consumer calls next(): the generator starts, or resumes after its yield
ConsumerNext ==
    \/ /\ fpc = "created"
       /\ pulls' = pulls + 1
       /\ LoopHead(cursor, totalFetched)
       /\ UNCHANGED <<bk, appVars, exportVars, streamVars, fkind, cursor, hasMore, totalFetched, response, pages, batches,
                      gaps>>
    \/ /\ fpc = "yielded"
       /\ pulls' = pulls + 1
       /\ EndOfIteration(response, totalFetched, UNCHANGED retryVars)
       /\ UNCHANGED <<bk, appVars, exportVars, streamVars, fkind, totalFetched, response, pages, batches>>

\* mutant of ConsumerReturn: the generator is not ended by return() but runs on
\* to its next page request
ConsumerReturnRunsOn ==
    /\ fpc \in {"created", "yielded"}
    /\ fpc' = "closed"
    /\ requestBody' = bodyFor(cursorOf(response))
    /\ WithRetryEnters(FetchConfig)
    /\ requests' = Append(requests, [page |-> Len(pages) + 1,
                                     body |-> bodyFor(cursorOf(response))])
    /\ UNCHANGED <<bk, appVars, exportVars, streamVars, pulls, fkind, cursor, hasMore, totalFetched,
                   lastLoggedCount, response, pages, batches, gaps>>

\* the consumer leaves its loop: return() ends the suspended generator
ConsumerReturn ==
    /\ fpc \in {"created", "yielded"}
    /\ fpc' = "closed"
    /\ UNCHANGED <<bk, appVars, exportVars, streamVars, pulls, retryVars, fkind, cursor, hasMore, totalFetched, lastLoggedCount,
                   requestBody, response, requests, pages, batches, gaps>>

\* mutant of AxiosResolves: the generator does not wait at its yield but goes on
\* to the next page while the batch is handed over
AxiosResolvesAhead(data) ==
    /\ fpc = "requesting"
    /\ wpc = "awaiting"
    /\ response' = data
    /\ pages' = Append(pages, data)
    /\ totalFetched' = totalFetched + pageRecords(fkind, data).length
    /\ batches' = IF yieldsBatch(fkind, data)
                  THEN Append(batches, pageRecords(fkind, data)) ELSE batches
    /\ EndOfIteration(data, totalFetched + pageRecords(fkind, data).length,
                      WithRetryReturns(data))
    /\ UNCHANGED <<bk, appVars, exportVars, streamVars, pulls, fkind>>

\* axios.post resolves: makePostRequest returns response.data, withRetry returns
\* it, and the fetcher yields the batch or finishes the iteration
AxiosResolves(data) ==
    /\ fpc = "requesting"
    /\ wpc = "awaiting"
    /\ response' = data
    /\ pages' = Append(pages, data)
    /\ IF yieldsBatch(fkind, data)
       THEN /\ totalFetched' = totalFetched + pageRecords(fkind, data).length
            /\ batches' = Append(batches, pageRecords(fkind, data))
            /\ fpc' = "yielded"
            /\ WithRetryReturns(data)
            /\ UNCHANGED <<cursor, hasMore, lastLoggedCount, requestBody, requests, gaps>>
       ELSE /\ EndOfIteration(data, totalFetched, WithRetryReturns(data))
            /\ UNCHANGED <<totalFetched, batches>>
    /\ UNCHANGED <<bk, appVars, exportVars, streamVars, pulls, fkind>>

\* axios.post rejects: makePostRequest rethrows or wraps, withRetry throws (and the
\* fetcher's catch rethrows to the consumer) or starts its backoff sleep
AxiosRejects(shape, rnd) ==
    /\ fpc = "requesting"
    /\ wpc = "awaiting"
    /\ WithRetryCatches(makePostRequestCatch(MkError(shape, calls)), rnd)
    /\ fpc' = IF wpc' = "thrown" THEN "failed" ELSE fpc
    /\ UNCHANGED <<bk, appVars, exportVars, streamVars, pulls, fkind, cursor, hasMore, totalFetched, lastLoggedCount, requestBody,
                   response, requests, pages, batches, gaps>>

\* the backoff sleep ends: the same closure posts the same requestBody again
BackoffResolves ==
    /\ fpc = "requesting"
    /\ Len(requests) < MaxRequests
    /\ WithRetryWakes
    /\ requests' = Append(requests, [page |-> Len(pages) + 1, body |-> requestBody])
    /\ UNCHANGED <<bk, appVars, exportVars, streamVars, pulls, fkind, fpc, cursor, hasMore, totalFetched, lastLoggedCount,
                   requestBody, response, pages, batches, gaps>>

\* the proactive sleep(3000) ends: the loop goes on with the next iteration
ThrottleResolves ==
    /\ fpc = "throttling"
    /\ LoopHead(cursor, totalFetched)
    /\ UNCHANGED <<bk, appVars, exportVars, streamVars, pulls, fkind, cursor, hasMore, totalFetched, response, pages, batches,
                   gaps>>

InitFetch ==
    /\ RetryIdle
    /\ bk = BkIdle
    /\ StreamIdle
    /\ ExportIdle
    /\ AppIdle
    /\ fkind \in {"experiment", "dataset"}
    /\ fpc = "created"
    /\ cursor = Null
    /\ hasMore = TRUE
    /\ totalFetched = 0
    /\ lastLoggedCount = 0
    /\ requestBody = bodyFor(Null)
    /\ response = NullData
    /\ requests = <<>>
    /\ pages = <<>>
    /\ batches = <<>>
    /\ gaps = <<>>
    /\ pulls = 0

NextFetch ==
    \/ ConsumerNext
    \/ ConsumerReturn
    \/ \E data \in PageData : AxiosResolves(data)
    \/ \E shape \in AxiosErrorShapes, rnd \in FetchDraws : AxiosRejects(shape, rnd)
    \/ BackoffResolves
    \/ ThrottleResolves

SpecFetch == InitFetch /\ [][NextFetch]_vars

(***************************************************************************)
(* The fetchers over an unbounded number of pages. The record of the past  *)
(* (requests, pages, batches, gaps, pulls) is not kept and totalFetched is *)
(* counted up to TotalCap, beyond the one value the code compares it with  *)
(* (ThrottleAfter); a run that never ends is then a cycle of states. The   *)
(* fairness conditions say that the consumer's loop asks for the next      *)
(* batch, that the service answers every request, and that every sleep     *)
(* ends.                                                                   *)
(***************************************************************************)
countUpTo(n) == IF n > TotalCap THEN TotalCap ELSE n

\* the pages the service may return in such a run
LivePageData ==
    {NullData}
    \cup [isNull : {FALSE},
          events : {NoArray, EmptyArray, Array("half", PageLimit \div 2),
                    Array("full", PageLimit)},
          records : {NoArray}, cursor : {Null, Str(""), Str("x")}]
    \cup [isNull : {FALSE}, events : {NoArray}, records : {Array("half", PageLimit \div 2)},
          cursor : {Null, Str("x")}]

\* part_003:636-655, 722-741
NextRequest(cur, total) ==
    /\ requestBody' = bodyFor(cur)
    /\ lastLoggedCount' = IF total > 0 /\ total # lastLoggedCount THEN total
                          ELSE lastLoggedCount
    /\ WithRetryEnters(FetchConfig)
    /\ fpc' = "requesting"

\* part_003:669-679, 757-766
IterationEnds(resp, total, settled) ==
    LET more == hasMoreAfter(fkind, resp)
    IN  /\ cursor' = cursorOf(resp)
        /\ hasMore' = more
        /\ IF throttles(more, total)
           THEN /\ fpc' = "throttling"
                /\ settled
                /\ UNCHANGED <<requestBody, lastLoggedCount>>
           ELSE IF more
           THEN NextRequest(cursorOf(resp), total)
           ELSE /\ fpc' = "done"
                /\ settled
                /\ UNCHANGED <<requestBody, lastLoggedCount>>

\* the consumer calls next()
PullNext ==
    \/ /\ fpc = "created"
       /\ NextRequest(cursor, totalFetched)
       /\ UNCHANGED <<bk, appVars, exportVars, streamVars, fkind, cursor, hasMore, totalFetched, response,
                      requests, pages, batches, gaps, pulls>>
    \/ /\ fpc = "yielded"
       /\ IterationEnds(response, totalFetched, UNCHANGED retryVars)
       /\ UNCHANGED <<bk, appVars, exportVars, streamVars, fkind, totalFetched, response, requests, pages,
                      batches, gaps, pulls>>

\* the consumer leaves its loop
Abandon ==
    /\ fpc \in {"created", "yielded"}
    /\ fpc' = "closed"
    /\ UNCHANGED <<bk, appVars, exportVars, streamVars, retryVars, fkind, cursor, hasMore, totalFetched,
                   lastLoggedCount, requestBody, response, requests, pages, batches, gaps,
                   pulls>>

\* axios.post resolves with a page
PageArrives(data) ==
    /\ fpc = "requesting"
    /\ wpc = "awaiting"
    /\ response' = data
    /\ IF yieldsBatch(fkind, data)
       THEN /\ totalFetched' = countUpTo(totalFetched + pageRecords(fkind, data).length)
            /\ fpc' = "yielded"
            /\ WithRetryReturns(data)
            /\ UNCHANGED <<cursor, hasMore, lastLoggedCount, requestBody>>
       ELSE /\ IterationEnds(data, totalFetched, WithRetryReturns(data))
            /\ UNCHANGED totalFetched
    /\ UNCHANGED <<bk, appVars, exportVars, streamVars, fkind, requests, pages, batches, gaps, pulls>>

\* axios.post rejects
RequestFails(shape, rnd) ==
    /\ fpc = "requesting"
    /\ wpc = "awaiting"
    /\ WithRetryCatches(makePostRequestCatch(MkError(shape, calls)), rnd)
    /\ fpc' = IF wpc' = "thrown" THEN "failed" ELSE fpc
    /\ UNCHANGED <<bk, appVars, exportVars, streamVars, fkind, cursor, hasMore, totalFetched, lastLoggedCount,
                   requestBody, response, requests, pages, batches, gaps, pulls>>

\* the service answers the outstanding request
ServiceAnswers ==
    \/ \E data \in LivePageData : PageArrives(data)
    \/ \E shape \in AxiosErrorShapes, rnd \in FetchDraws : RequestFails(shape, rnd)

\* the backoff sleep of withRetry ends
BackoffEnds ==
    /\ fpc = "requesting"
    /\ WithRetryWakes
    /\ UNCHANGED <<bk, appVars, exportVars, streamVars, fetchVars>>

\* the proactive sleep ends
ThrottleEnds ==
    /\ fpc = "throttling"
    /\ NextRequest(cursor, totalFetched)
    /\ UNCHANGED <<bk, appVars, exportVars, streamVars, fkind, cursor, hasMore, totalFetched, response,
                   requests, pages, batches, gaps, pulls>>

NextFetchLive ==
    \/ PullNext
    \/ Abandon
    \/ ServiceAnswers
    \/ BackoffEnds
    \/ ThrottleEnds

SpecFetchLive ==
    /\ InitFetch
    /\ [][NextFetchLive]_vars
    /\ WF_vars(PullNext)
    /\ WF_vars(ServiceAnswers)
    /\ WF_vars(BackoffEnds)
    /\ WF_vars(ThrottleEnds)

(***************************************************************************)
(* The input of streamCSVToFile: the records of the examples, the batches  *)
(* an async iterable delivers, and the arrays passed in memory.            *)
(***************************************************************************)
RecXY == Obj(<<Field(<<"x">>, Num(1)), Field(<<"y">>, Num(2))>>)
RecYX == Obj(<<Field(<<"y">>, Num(3)), Field(<<"x">>, Num(4))>>)
RecXYZ == Obj(<<Field(<<"x">>, Num(5)), Field(<<"y">>, Num(6)), Field(<<"z">>, Num(7))>>)
RecXW == Obj(<<Field(<<"x">>, Num(8)), Field(<<"w">>, Text(<<"late">>))>>)
\* {a: {b: 1}, c: [1,2,3]}
RecNested ==
    Obj(<<Field(<<"a">>, Obj(<<Field(<<"b">>, Num(1))>>)),
          Field(<<"c">>, Arr(<<Item("1", 1, 1), Item("2", 1, 1), Item("3", 1, 1)>>, FALSE))>>)
\* {"a.b": 1, a: {b: 2}, Z: 0}: two fields with the same key path
RecSamePath ==
    Obj(<<Field(<<"a", ".", "b">>, Num(1)),
          Field(<<"a">>, Obj(<<Field(<<"b">>, Num(2))>>)),
          Field(<<"Z">>, Num(0))>>)
\* {x: 9, c: [0, 0, ...]} with ArrayItemLimit + 1 items
RecBigArray ==
    Obj(<<Field(<<"x">>, Num(9)),
          Field(<<"c">>, Arr(<<Item("0", 1, ArrayItemLimit + 1)>>, FALSE))>>)

\* {x: 10, c: [...]}: 1000 items of 101 characters, more than StringifiedLimit in all
RecLongArray ==
    Obj(<<Field(<<"x">>, Num(10)),
          Field(<<"c">>, Arr(<<Item("0.1", 101, ArrayItemLimit)>>, FALSE))>>)
\* {x: 11, a: {c: [o]}} where o refers to itself: JSON.stringify throws
RecCircular ==
    Obj(<<Field(<<"x">>, Num(11)),
          Field(<<"a">>, Obj(<<Field(<<"c">>, Arr(<<Item("o", 1, 1)>>, TRUE))>>))>>)

\* {x: 12, n: "rows truncated for export"}: a scalar string, no array
RecNote ==
    Obj(<<Field(<<"x">>, Num(12)),
          Field(<<"n">>, Text(<<"rows ", "truncated for export">>))>>)

TenRecords == <<Run(RecYX, 4), Run(RecNested, 3), Run(RecSamePath, 3)>>

ArrayBatch(runs) == [isArray |-> TRUE, runs |-> runs, record |-> Obj(<<>>)]
RecordBatch(rec) == [isArray |-> FALSE, runs |-> <<>>, record |-> rec]

\* what the for-await loop may receive from an async iterable
InputBatches ==
    { ArrayBatch(<<Run(RecXY, INITIAL_BUFFER_SIZE)>>),
      ArrayBatch(<<Run(RecXYZ, 500)>>),
      ArrayBatch(<<Run(RecXY, 600)>>),
      ArrayBatch(<<Run(RecXY, 400)>>),
      ArrayBatch(<<Run(RecXY, 400), Run(RecXYZ, 500)>>),
      ArrayBatch(TenRecords),
      ArrayBatch(<<Run(RecBigArray, 1), Run(RecXY, 1)>>),
      ArrayBatch(<<Run(RecLongArray, 1)>>),
      ArrayBatch(<<Run(RecCircular, 1)>>),
      ArrayBatch(<<Run(RecNote, 1)>>),
      ArrayBatch(<<>>),
      RecordBatch(RecXW) }

\* the arrays passed as `records`
ArrayInputs ==
    { ArrayBatch(<<Run(RecXY, INITIAL_BUFFER_SIZE), Run(RecXYZ, 500)>>),
      ArrayBatch(TenRecords),
      ArrayBatch(<<>>) }

\* a file left at filePath by an earlier run
StaleFile == [exists |-> TRUE, lines |-> <<HeaderLine(<<<<"z">>>>)>>]

(***************************************************************************)
(* The steps of streamCSVToFile. It runs from one await of the for-await   *)
(* loop to the next; fsOk tells whether the fs call of the step, if it     *)
(* makes one, succeeds.                                                    *)
(***************************************************************************)
Returned(n, truncated, drift) ==
    [kind |-> "returned", recordCount |-> n, hadTruncation |-> truncated,
     schemaDriftDetected |-> drift]
Threw == [kind |-> "threw", recordCount |-> 0, hadTruncation |-> FALSE,
          schemaDriftDetected |-> FALSE]

FsCall(op, fsOk) == [op |-> op, ok |-> fsOk]

\* Array.isArray(batch) ? batch : [batch]  (part_003:822)
recordsArrayOf(batch) == IF batch.isArray THEN batch.runs ELSE <<Run(batch.record, 1)>>

\* part_003:831-865: the buffer has reached INITIAL_BUFFER_SIZE
LockAndWrite(pushed, fsOk) ==
    LET flattenedBuffer == flattenAll(pushed)
        fields == extractHeaders(flattenedBuffer)
    IN  /\ hadTruncation' = (hadTruncation \/ anyTruncated(flattenedBuffer))
        /\ headers' = HeadersArray(fields)
        /\ locks' = Append(locks, fields)
        /\ fsLog' = Append(fsLog, FsCall("writeFileSync", fsOk))
        /\ IF fsOk
           THEN /\ file' = writeFileSync(file, parseWithHeader(fields, flattenedBuffer))
                /\ recordCount' = Length(flattenedBuffer)
                /\ isBuffering' = FALSE
                /\ buffer' = <<>>
                /\ UNCHANGED <<spc, summary>>
           ELSE /\ buffer' = pushed
                /\ spc' = "thrown"
                /\ summary' = Threw
                /\ UNCHANGED <<file, recordCount, isBuffering>>
        /\ UNCHANGED <<schemaDriftDetected, warnings>>

\* part_003:827-867: phase 1, the batch is pushed to the buffer
BufferBatch(recordsArray, fsOk) ==
    LET pushed == buffer \o recordsArray
    IN  /\ bufferPeak' = IF Length(pushed) > bufferPeak THEN Length(pushed) ELSE bufferPeak
        /\ IF Length(pushed) >= INITIAL_BUFFER_SIZE
           THEN LockAndWrite(pushed, fsOk)
           ELSE /\ buffer' = pushed
                /\ UNCHANGED <<recordCount, headers, hadTruncation, schemaDriftDetected,
                               isBuffering, file, summary, fsLog, warnings, locks, spc>>

\* part_003:869-913: phase 2, the batch is appended under the locked headers
StreamBatch(recordsArray, fsOk) ==
    LET flattenedRecords == flattenAll(recordsArray)
        newFields == newFieldsOf(flattenedRecords, headers.fields, <<>>)
        warns == warnsOfDrift(newFields, schemaDriftDetected)
    IN  /\ hadTruncation' = (hadTruncation \/ anyTruncated(flattenedRecords))
        /\ schemaDriftDetected' = (schemaDriftDetected \/ warns)
        /\ warnings' = IF warns THEN Append(warnings, newFields) ELSE warnings
        /\ fsLog' = Append(fsLog, FsCall("appendFileSync", fsOk))
        /\ IF fsOk
           THEN /\ file' = appendFileSync(file, parseRows(headers.fields, flattenedRecords))
                /\ recordCount' = recordCount + Length(flattenedRecords)
                /\ UNCHANGED <<spc, summary>>
           ELSE /\ spc' = "thrown"
                /\ summary' = Threw
                /\ UNCHANGED <<file, recordCount>>
        /\ UNCHANGED <<buffer, bufferPeak, headers, isBuffering, locks>>

\* the for-await loop receives a batch and runs its body (part_003:820-914)
BatchArrives(batch, fsOk) ==
    /\ spc = "iterating"
    /\ taken < MaxBatches
    /\ IF input = "array" THEN taken = 0 /\ batch \in ArrayInputs
       ELSE batch \in InputBatches
    /\ taken' = taken + 1
    /\ delivered' = delivered \o recordsArrayOf(batch)
    /\ IF Length(recordsArrayOf(batch)) = 0
       THEN UNCHANGED <<spc, buffer, bufferPeak, recordCount, headers, hadTruncation,
                        schemaDriftDetected, isBuffering, file, summary, fsLog, warnings,
                        locks>>
       ELSE IF isBuffering
       THEN BufferBatch(recordsArrayOf(batch), fsOk)
       ELSE StreamBatch(recordsArrayOf(batch), fsOk)
    /\ UNCHANGED <<input, bk, appVars, retryVars, fetchVars, exportVars>>

\* the input is exhausted: part_003:916-947
InputEnds(fsOk) ==
    /\ spc = "iterating"
    /\ input = "array" => taken = 1
    /\ IF buffered(isBuffering, buffer)
       THEN LET flattenedBuffer == flattenAll(buffer)
                fields == extractHeaders(flattenedBuffer)
            IN  /\ headers' = HeadersArray(fields)
                /\ locks' = Append(locks, fields)
                /\ fsLog' = Append(fsLog, FsCall("writeFileSync", fsOk))
                /\ IF fsOk
                   THEN /\ file' = writeFileSync(file,
                                                 parseWithHeader(fields, flattenedBuffer))
                        /\ recordCount' = Length(flattenedBuffer)
                        /\ spc' = "returned"
                        /\ summary' = Returned(Length(flattenedBuffer), hadTruncation,
                                               schemaDriftDetected)
                   ELSE /\ spc' = "thrown"
                        /\ summary' = Threw
                        /\ UNCHANGED <<file, recordCount>>
       ELSE /\ spc' = "returned"
            /\ summary' = Returned(recordCount, hadTruncation, schemaDriftDetected)
            /\ UNCHANGED <<headers, locks, fsLog, file, recordCount>>
    /\ UNCHANGED <<input, taken, buffer, bufferPeak, hadTruncation, schemaDriftDetected,
                   isBuffering, delivered, warnings, bk, appVars, retryVars, fetchVars, exportVars>>

\* a catch block that removes the output file before it rethrows
InputThrowsAndUnlinks ==
    /\ spc = "iterating"
    /\ input = "iterable"
    /\ spc' = "thrown"
    /\ summary' = Threw
    /\ file' = NoFile
    /\ UNCHANGED <<input, taken, buffer, bufferPeak, recordCount, headers, hadTruncation,
                   schemaDriftDetected, isBuffering, delivered, fsLog, warnings,
                   locks, bk, appVars, retryVars, fetchVars, exportVars>>

\* the async iterable rejects: the catch block logs and rethrows (part_003:948-951)
InputThrows ==
    /\ spc = "iterating"
    /\ input = "iterable"
    /\ spc' = "thrown"
    /\ summary' = Threw
    /\ UNCHANGED <<input, taken, buffer, bufferPeak, recordCount, headers, hadTruncation,
                   schemaDriftDetected, isBuffering, file, delivered, fsLog, warnings,
                   locks, bk, appVars, retryVars, fetchVars, exportVars>>

\* streamCSVToFile(records, filePath) has run to its first await (part_003:807-820)
InitStream ==
    /\ RetryIdle
    /\ bk = BkIdle
    /\ FetchIdle
    /\ ExportIdle
    /\ AppIdle
    /\ spc = "iterating"
    /\ input \in {"iterable", "array"}
    /\ taken = 0
    /\ buffer = <<>>
    /\ bufferPeak = 0
    /\ recordCount = 0
    /\ headers = NoHeaders
    /\ hadTruncation = FALSE
    /\ schemaDriftDetected = FALSE
    /\ isBuffering = TRUE
    /\ file \in {NoFile, StaleFile}
    /\ summary = NoSummary
    /\ delivered = <<>>
    /\ fsLog = <<>>
    /\ warnings = <<>>
    /\ locks = <<>>

NextStream ==
    \/ \E batch \in InputBatches \cup ArrayInputs, fsOk \in BOOLEAN :
          BatchArrives(batch, fsOk)
    \/ \E fsOk \in BOOLEAN : InputEnds(fsOk)
    \/ InputThrows

SpecStream == InitStream /\ [][NextStream]_vars

(***************************************************************************)
(* The steps of exportProjectData, from one await to the next.             *)
(***************************************************************************)
ListReq(what) == [kind |-> what, idx |-> 0, page |-> 0]
PageReq(kind, idx, page) == [kind |-> kind, idx |-> idx, page |-> page]
Ent(kind, idx) == [kind |-> kind, idx |-> idx]

\* a promise is awaited: it is pending until it settles
issue(pending, p) == pending \cup {p}

\* mutant of settle: what has settled is still counted as pending
settleKeeps(pending, p) == pending

settle(pending, p) == pending \ {p}

\* mutant of nothingToExport: the directories are created for empty lists too
nothingToExportNever(exps, dsets) == FALSE

\* experiments.length === 0 && datasets.length === 0 (part_003:1037)
nothingToExport(exps, dsets) == Len(exps) = 0 /\ Len(dsets) = 0

\* mutant of entityFailure: the failure of one entity ends the run
entityFailureRethrown == "rethrown"

\* the catch blocks of the two loops (part_003:1060-1062, 1080-1082) log the
\* failure of the entity and raise nothing
entityFailure == "logged"

\* what the menu shows after the call (app.js:192-207)
Line(text) == [text |-> text]
MenuSuccess == <<Line("Export completed successfully!")>>
MenuError == <<Line("Error")>>

\* the closing lines of exportProjectData (part_003:1086-1089)
ClosingLines ==
    <<Line("Export complete!"), Line("Project folder"), Line("Experiments"), Line("Datasets")>>

\* the outer catch logs and rethrows (part_003:1090-1093); the menu shows the error
ExportThrows(error) ==
    /\ epc' = "thrown"
    /\ raised' = error
    /\ report' = MenuError
    /\ run' = RunNone

\* the loop body up to its first await (part_003:1049-1059, 1069-1079): the file
\* path is derived, the generator is created and streamCSVToFile asks it for the
\* first page
Begin(kind, idx, e, pend, act) ==
    LET safeName == sanitizeFilename(nameOrId(e), e.id)
        filePath == [dir |-> IF kind = "experiment" THEN experimentsDirOf(displayName)
                             ELSE datasetsDirOf(displayName),
                     name |-> safeName]
    IN  /\ run' = [kind |-> kind, idx |-> idx, filePath |-> filePath, fst |-> "requesting",
                   page |-> 1, attempt |-> 0, totalFetched |-> 0, buffered |-> 0,
                   isBuffering |-> TRUE, recordCount |-> 0]
        /\ inflight' = issue(pend, PageReq(kind, idx, 1))
        /\ active' = issue(act, Ent(kind, idx))
        /\ started' = Append(started, Ent(kind, idx))
        /\ fetched' = TRUE

\* the two loops reach their next entity (part_003:1047-1084), or the closing
\* lines and the return to the menu (part_003:1086-1089, app.js:199-203)
Proceed(exps, dsets, ec, dc, pend, act) ==
    IF ec < Len(exps)
    THEN /\ experimentCount' = ec + 1
         /\ datasetCount' = dc
         /\ Begin("experiment", ec + 1, exps[ec + 1], pend, act)
         /\ epc' = "exporting"
         /\ report' = report
         /\ raised' = raised
    ELSE IF dc < Len(dsets)
    THEN /\ experimentCount' = ec
         /\ datasetCount' = dc + 1
         /\ Begin("dataset", dc + 1, dsets[dc + 1], pend, act)
         /\ epc' = "exporting"
         /\ report' = report
         /\ raised' = raised
    ELSE /\ experimentCount' = ec
         /\ datasetCount' = dc
         /\ run' = RunNone
         /\ inflight' = pend
         /\ active' = act
         /\ epc' = "returned"
         /\ report' = ClosingLines \o MenuSuccess
         /\ raised' = raised
         /\ UNCHANGED <<started, fetched>>

\* an error that is not an axios error: new Error(message), or an error of fs
ErrorAt(n, code, message) ==
    [id |-> n, hasResponse |-> FALSE, status |-> NoStatus, retryAfter |-> NoHeader,
     code |-> code, message |-> message]

\* makeRequest(endpoint, apiKey, params) calls axios.get once (part_003:392-409);
\* `by` is the listing function that awaits it
Get(what, by) == [what |-> what, by |-> by]

\* the catch block of makeRequest (part_003:410-419), the one of makePostRequest
makeRequestCatch(error) == makePostRequestCatch(error)

\* listProjects() answered (part_003:532-538, 585-591)
ProjectsListed(found) ==
    /\ epc \in {"projectsForExperiments", "projectsForDatasets"}
    /\ IF found
       THEN /\ epc' = IF epc = "projectsForExperiments" THEN "experiments" ELSE "datasets"
            /\ inflight' = issue(settle(inflight, ListReq("project")),
                                 ListReq(IF epc = "projectsForExperiments"
                                         THEN "experiment" ELSE "dataset"))
            /\ gets' = Append(gets, IF epc = "projectsForExperiments"
                                    THEN Get("experiment", "fetchExperiments")
                                    ELSE Get("dataset", "fetchDatasets"))
            /\ UNCHANGED <<report, raised, run>>
       ELSE /\ ExportThrows(ErrorAt(Len(gets), "none", "Project not found"))
            /\ inflight' = settle(inflight, ListReq("project"))
            /\ gets' = gets
    /\ UNCHANGED <<bk, appVars, retryVars, fetchVars, streamVars, listingError,
                   isId, displayName, experiments, datasets, experimentCount,
                   datasetCount, dirs, disk, active, started, ended, console, fetched>>

\* a listing failure after which the directories are made before the error is
\* raised
ListingFailsAfterMkdir(shape) ==
    /\ epc \in {"projectsForExperiments", "projectsForDatasets", "experiments", "datasets"}
    /\ listingError' = MkError(shape, Len(gets))
    /\ ExportThrows(makeRequestCatch(listingError'))
    /\ inflight' = {}
    /\ dirs' = createProjectDirectories(dirs, displayName)
    /\ UNCHANGED <<bk, appVars, retryVars, fetchVars, streamVars, gets,
                   isId, displayName, experiments, datasets, experimentCount,
                   datasetCount, disk, active, started, ended, console, fetched>>

\* a listing request failed: makeRequest throws (part_003:410-419), the listing
\* function logs and rethrows (560-563), and so does exportProjectData
ListingFails(shape) ==
    /\ epc \in {"projectsForExperiments", "projectsForDatasets", "experiments", "datasets"}
    /\ listingError' = MkError(shape, Len(gets))
    /\ ExportThrows(makeRequestCatch(listingError'))
    /\ inflight' = {}
    /\ UNCHANGED <<bk, appVars, retryVars, fetchVars, streamVars, gets,
                   isId, displayName, experiments, datasets, experimentCount,
                   datasetCount, dirs, disk, active, started, ended, console, fetched>>

\* fetchExperiments returned (part_003:1031), fetchDatasets is called (1032)
ExperimentsListed(list) ==
    /\ epc = "experiments"
    /\ list \in ExperimentLists
    /\ experiments' = list
    /\ epc' = IF isId THEN "datasets" ELSE "projectsForDatasets"
    /\ inflight' = issue(settle(inflight, ListReq("experiment")),
                         ListReq(IF isId THEN "dataset" ELSE "project"))
    /\ gets' = Append(gets, Get(IF isId THEN "dataset" ELSE "project", "fetchDatasets"))
    /\ UNCHANGED <<bk, appVars, retryVars, fetchVars, streamVars, listingError,
                   isId, displayName, datasets, experimentCount, datasetCount, dirs,
                   disk, run, active, started, ended, console, report, raised, fetched>>

\* fetchDatasets returned (part_003:1032-1044): nothing to export, or the
\* directories are made and the first entity is begun
\* createProjectDirectories when only the first `made` calls of fs.mkdirSync succeed
createdUpTo(existing, projectName, made) ==
    IF made = 0 THEN existing ELSE mkdirSync(existing, datasetsDirOf(projectName))

DatasetsListed(list, made) ==
    /\ epc = "datasets"
    /\ list \in DatasetLists
    /\ datasets' = list
    /\ IF nothingToExport(experiments, list)
       THEN /\ epc' = "returned"
            /\ report' = MenuSuccess
            /\ raised' = raised
            /\ inflight' = settle(inflight, ListReq("dataset"))
            /\ UNCHANGED <<dirs, run, experimentCount, datasetCount, active, started,
                           fetched>>
       ELSE IF made = MkdirCalls
       THEN /\ dirs' = createProjectDirectories(dirs, displayName)
            /\ Proceed(experiments, list, 0, 0, settle(inflight, ListReq("dataset")),
                       active)
       ELSE /\ dirs' = createdUpTo(dirs, displayName, made)
            /\ ExportThrows(ErrorAt(Len(gets), "EACCES", "mkdir"))
            /\ inflight' = settle(inflight, ListReq("dataset"))
            /\ UNCHANGED <<experimentCount, datasetCount, active, started, fetched>>
    /\ UNCHANGED <<bk, appVars, retryVars, fetchVars, streamVars, gets, listingError,
                   isId, displayName, experiments, disk, ended, console>>

Ended(how, cause, n, total) ==
    [kind |-> run.kind, idx |-> run.idx, outcome |-> how, error |-> cause,
     recordCount |-> n, delivered |-> total]

\* streamCSVToFile returned (part_003:935-947); the loop goes on
EntityExported(n, total, pend) ==
    /\ ended' = Append(ended, Ended("exported", "none", n, total))
    /\ console' = Append(console, [text |-> IF n = 0 THEN "No data to export"
                                             ELSE "Exported",
                                   kind |-> run.kind, idx |-> run.idx])
    /\ Proceed(experiments, datasets, experimentCount, datasetCount, pend,
               settle(active, Ent(run.kind, run.idx)))

\* streamCSVToFile threw (part_003:948-951); the catch of the loop logs it
EntityFailed(cause, total, pend) ==
    /\ ended' = Append(ended, Ended("failed", cause, 0, total))
    /\ console' = Append(console, [text |-> "Failed to export", kind |-> run.kind,
                                   idx |-> run.idx])
    /\ IF entityFailure = "logged"
       THEN Proceed(experiments, datasets, experimentCount, datasetCount, pend,
                    settle(active, Ent(run.kind, run.idx)))
       ELSE /\ ExportThrows(ErrorAt(Len(gets), "none", cause))
            /\ inflight' = pend
            /\ active' = settle(active, Ent(run.kind, run.idx))
            /\ UNCHANGED <<experimentCount, datasetCount, started, fetched>>

\* the rows of the file after fs.writeFileSync / fs.appendFileSync
written(d, filePath, rows) == (filePath :> rows) @@ d
appended(d, filePath, rows) == (filePath :> (d[filePath] + rows)) @@ d

\* the generator goes on after a batch (part_003:672-679): the next page is asked
\* for, after the proactive delay once 1000 records were fetched
NextPage(r, pend) ==
    IF r.totalFetched >= ThrottleAfter
    THEN /\ run' = [r EXCEPT !.fst = "throttle"]
         /\ inflight' = pend
    ELSE /\ run' = [r EXCEPT !.fst = "requesting", !.page = r.page + 1, !.attempt = 0]
         /\ inflight' = issue(pend, PageReq(r.kind, r.idx, r.page + 1))

\* the input of streamCSVToFile is exhausted (part_003:916-947)
EndOfInput(r, fsOk, pend) ==
    IF r.isBuffering /\ r.buffered > 0
    THEN IF fsOk
         THEN /\ disk' = written(disk, r.filePath, r.buffered)
              /\ EntityExported(r.buffered, r.totalFetched, pend)
         ELSE /\ disk' = disk
              /\ EntityFailed("write failure", r.totalFetched, pend)
    ELSE /\ disk' = disk
         /\ EntityExported(r.recordCount, r.totalFetched, pend)

\* a page of n records arrived (part_003:649-679, 820-914); `more` tells whether
\* it holds a cursor and records, fsOk whether the fs call of the step succeeds
RecordsArrive(n, more, fsOk) ==
    /\ epc = "exporting"
    /\ run.fst = "requesting"
    /\ n \in PageSizes
    /\ more => n > 0 /\ run.page < MaxEntityPages
    /\ LET pend == settle(inflight, PageReq(run.kind, run.idx, run.page))
           fetchedRun == [run EXCEPT !.totalFetched = run.totalFetched + n]
       IN  IF n = 0
           THEN EndOfInput(fetchedRun, fsOk, pend)
           ELSE IF run.isBuffering
           THEN IF run.buffered + n >= INITIAL_BUFFER_SIZE
                THEN IF fsOk
                     THEN /\ disk' = written(disk, run.filePath, run.buffered + n)
                          /\ LET r == [fetchedRun EXCEPT !.buffered = 0,
                                                         !.isBuffering = FALSE,
                                                         !.recordCount = run.buffered + n]
                             IN  IF more
                                 THEN /\ NextPage(r, pend)
                                      /\ UNCHANGED <<experimentCount, datasetCount, active,
                                                     started, ended, console, report, raised, epc,
                                                     fetched>>
                                 ELSE EntityExported(r.recordCount, r.totalFetched, pend)
                     ELSE /\ disk' = disk
                          /\ EntityFailed("write failure", fetchedRun.totalFetched, pend)
                ELSE LET r == [fetchedRun EXCEPT !.buffered = run.buffered + n]
                     IN  IF more
                         THEN /\ disk' = disk
                              /\ NextPage(r, pend)
                              /\ UNCHANGED <<experimentCount, datasetCount, active, started,
                                             ended, console, report, raised, epc, fetched>>
                         ELSE EndOfInput(r, fsOk, pend)
           ELSE IF fsOk
                THEN /\ disk' = appended(disk, run.filePath, n)
                     /\ LET r == [fetchedRun EXCEPT !.recordCount = run.recordCount + n]
                        IN  IF more
                            THEN /\ NextPage(r, pend)
                                 /\ UNCHANGED <<experimentCount, datasetCount, active,
                                                started, ended, console, report, raised, epc,
                                                fetched>>
                            ELSE EntityExported(r.recordCount, r.totalFetched, pend)
                ELSE /\ disk' = disk
                     /\ EntityFailed("write failure", fetchedRun.totalFetched, pend)
    /\ UNCHANGED <<bk, appVars, retryVars, fetchVars, streamVars, gets,
                   listingError,
                   isId, displayName, experiments, datasets, dirs>>

\* the page request failed (part_003:436-446, rate-limiter.js:105-157): a
\* retryable failure (429, 5xx, ECONNRESET, ETIMEDOUT) is retried up to
\* FetchMaxRetries times, any other failure is raised
PageFails(retryable) ==
    /\ epc = "exporting"
    /\ run.fst = "requesting"
    /\ retryable => run.page <= RetriedPages
    /\ LET pend == settle(inflight, PageReq(run.kind, run.idx, run.page))
       IN  IF retryable /\ run.attempt < FetchMaxRetries
           THEN /\ run' = [run EXCEPT !.fst = "backoff", !.attempt = run.attempt + 1]
                /\ inflight' = pend
                /\ UNCHANGED <<experimentCount, datasetCount, active, started, ended,
                               console, report, raised, epc, fetched>>
           ELSE EntityFailed(IF retryable THEN "retries exhausted" ELSE "remote error",
                             run.totalFetched, pend)
    /\ UNCHANGED <<bk, appVars, retryVars, fetchVars, streamVars, gets,
                   listingError,
                   isId, displayName, experiments, datasets, dirs, disk>>

\* the backoff or the proactive delay is over: the request is posted
DelayEnds ==
    /\ epc = "exporting"
    /\ run.fst \in {"backoff", "throttle"}
    /\ LET p == IF run.fst = "throttle" THEN run.page + 1 ELSE run.page
       IN  /\ run' = [run EXCEPT !.fst = "requesting", !.page = p,
                                 !.attempt = IF run.fst = "throttle" THEN 0 ELSE run.attempt]
           /\ inflight' = issue(inflight, PageReq(run.kind, run.idx, p))
    /\ UNCHANGED <<bk, appVars, retryVars, fetchVars, streamVars, gets,
                   listingError,
                   isId, displayName, experiments, datasets, experimentCount,
                   datasetCount, dirs, disk, active, started, ended, console, report, raised,
                   epc, fetched>>

\* exportProjectData(apiKey, projectNameOrId, outputDir, isId, projectName) was
\* called by the menu and has run to its first await (part_003:1024-1031)
InitExport ==
    /\ RetryIdle
    /\ bk = BkIdle
    /\ FetchIdle
    /\ StreamIdle
    /\ AppIdle
    /\ isId \in BOOLEAN
    /\ displayName \in ProjectNames
    /\ epc = IF isId THEN "experiments" ELSE "projectsForExperiments"
    /\ inflight = {ListReq(IF isId THEN "experiment" ELSE "project")}
    /\ gets = <<Get(IF isId THEN "experiment" ELSE "project", "fetchExperiments")>>
    /\ listingError = NoError
    /\ raised = NoError
    /\ experiments = <<>>
    /\ datasets = <<>>
    /\ experimentCount = 0
    /\ datasetCount = 0
    /\ dirs \in {{}, createProjectDirectories({}, displayName)}
    /\ disk = [f \in {} |-> 0]
    /\ run = RunNone
    /\ active = {}
    /\ started = <<>>
    /\ ended = <<>>
    /\ console = <<>>
    /\ report = <<>>
    /\ fetched = FALSE

NextExport ==
    \/ \E found \in BOOLEAN : ProjectsListed(found)
    \/ \E shape \in AxiosErrorShapes : ListingFails(shape)
    \/ \E list \in ExperimentLists : ExperimentsListed(list)
    \/ \E list \in DatasetLists, made \in 0..MkdirCalls : DatasetsListed(list, made)
    \/ \E n \in PageSizes, more \in BOOLEAN, fsOk \in BOOLEAN : RecordsArrive(n, more, fsOk)
    \/ \E retryable \in BOOLEAN : PageFails(retryable)
    \/ DelayEnds

SpecExport == InitExport /\ [][NextExport]_vars

(***************************************************************************)
(* sanitizeFilename applied to names and ids drawn from bounded sets.      *)
(***************************************************************************)
MaxNameLen == 3

\* an upper-case and a lower-case letter, a digit, and characters the regular
\* expression does not match, the underscore among them
NameChars == {"A", "b", "1", "_", "!", " "}

RECURSIVE StringsUpTo(_, _)
StringsUpTo(chars, n) ==
    IF n = 0 THEN {<<>>}
    ELSE LET shorter == StringsUpTo(chars, n - 1)
         IN  shorter \cup {Append(w, c) : w \in shorter, c \in chars}

MyProject == <<"M", "y", " ", "P", "r", "o", "j", "e", "c", "t", "!", " ", "#", "1">>
LongId == <<"a", "b", "c", "d", "e", "f", "1", "2", "3", "4", "5", "6", "7", "8", "9", "0">>
ShortId == <<"a", "b", "c">>

SanitizeNames == StringsUpTo(NameChars, MaxNameLen) \cup {MyProject}
SanitizeIds == {NoId, ShortId, LongId}

InitSanitize ==
    /\ RetryIdle
    /\ bk = BkIdle
    /\ FetchIdle
    /\ StreamIdle
    /\ ExportIdle
    /\ fo = FoIdle
    /\ cli = CliIdle
    /\ sf \in [phase : {"drawn"}, name : SanitizeNames, id : SanitizeIds, result : {<<>>}]

ApplySanitizeFilename ==
    /\ sf.phase = "drawn"
    /\ sf' = [sf EXCEPT !.phase = "applied", !.result = sanitizeFilename(sf.name, sf.id)]
    /\ UNCHANGED <<bk, fo, cli, retryVars, fetchVars, streamVars, exportVars>>

NextSanitize == ApplySanitizeFilename

SpecSanitize == InitSanitize /\ [][NextSanitize]_vars

(***************************************************************************)
(* flattenObject applied, twice, to records drawn from a bounded set: each *)
(* record has the fields a and c, and each field holds one of the values   *)
(* below.                                                                  *)
(***************************************************************************)
JsNull == [t |-> "null"]

\* [1,2,3]
ArrOneTwoThree == Arr(<<Item("1", 1, 1), Item("2", 1, 1), Item("3", 1, 1)>>, FALSE)
\* arrays of 1000 and of 1001 items
ArrAtItemLimit == Arr(<<Item("0", 1, ArrayItemLimit)>>, FALSE)
ArrOverItemLimit == Arr(<<Item("0", 1, ArrayItemLimit + 1)>>, FALSE)
\* arrays of 1000 items whose JSON text has 100,000 and 100,001 characters
ArrAtSizeLimit == Arr(<<Item("x", 99, ArrayItemLimit - 1), Item("y", 98, 1)>>, FALSE)
ArrOverSizeLimit == Arr(<<Item("x", 99, ArrayItemLimit)>>, FALSE)
\* an array that holds an object referring to itself
ArrCircular == Arr(<<Item("o", 1, 1)>>, TRUE)

FlattenValues ==
    { Num(1), Text(<<"plain">>), JsNull,
      Obj(<<>>),
      Obj(<<Field(<<"b">>, Num(1))>>),
      Obj(<<Field(<<"b">>, Obj(<<Field(<<"d">>, ArrOneTwoThree)>>)),
            Field(<<"e">>, Text(<<"deep">>))>>),
      Arr(<<>>, FALSE), ArrOneTwoThree,
      ArrAtItemLimit, ArrOverItemLimit, ArrAtSizeLimit, ArrOverSizeLimit, ArrCircular }

FlattenRecords ==
    {Obj(<<Field(<<"a">>, v), Field(<<"c">>, w)>>) : v \in FlattenValues, w \in FlattenValues}

InitFlatten ==
    /\ RetryIdle
    /\ bk = BkIdle
    /\ FetchIdle
    /\ StreamIdle
    /\ ExportIdle
    /\ sf = SfIdle
    /\ cli = CliIdle
    /\ fo \in [phase : {"drawn"}, record : FlattenRecords, first : {<<>>}, second : {<<>>}]

\* flattenObject(record): prefix and result take their defaults '' and {}
ApplyFlattenObject ==
    /\ fo.phase = "drawn"
    /\ fo' = [fo EXCEPT !.phase = "once", !.first = flattenObject(fo.record)]
    /\ UNCHANGED <<bk, sf, cli, retryVars, fetchVars, streamVars, exportVars>>

\* flattenObject(record) once more, on the same record
ApplyFlattenObjectAgain ==
    /\ fo.phase = "once"
    /\ fo' = [fo EXCEPT !.phase = "twice", !.second = flattenObject(fo.record)]
    /\ UNCHANGED <<bk, sf, cli, retryVars, fetchVars, streamVars, exportVars>>

NextFlatten == ApplyFlattenObject \/ ApplyFlattenObjectAgain

SpecFlatten == InitFlatten /\ [][NextFlatten]_vars

(***************************************************************************)
(* The menu loop of app.js. The session state is process.env; a text typed *)
(* at a prompt is a sequence of pieces, " " being white space.             *)
(***************************************************************************)
outsideCli == <<bk, sf, fo, retryVars, fetchVars, streamVars, exportVars>>

\* const maxRetries = 3 (app.js:124)
maxRetries == 3

\* a test of the variable that takes the text "undefined" for a value
isEmptyOnly(v) == v = ""

\* !process.env.X || process.env.X === "undefined" (app.js:16, 80, 170, 175;
\* inquirer-config.js:23, 37); a variable that is not in the environment is ""
isUnset(v) == v = "" \/ v = "undefined"

\* process.env.X = value: the value is converted to a string
envValue(opt) == IF opt = <<>> THEN "undefined" ELSE opt[1]

RECURSIVE joinPieces(_)
joinPieces(t) == IF t = <<>> THEN "" ELSE Head(t) \o joinPieces(Tail(t))

RECURSIVE trimStart(_)
trimStart(t) == IF t # <<>> /\ Head(t) = " " THEN trimStart(Tail(t)) ELSE t

RECURSIVE trimEnd(_)
trimEnd(t) ==
    IF t # <<>> /\ t[Len(t)] = " " THEN trimEnd(SubSeq(t, 1, Len(t) - 1)) ELSE t

\* String.prototype.trim
trim(t) == joinPieces(trimEnd(trimStart(t)))

\* the choices of the main menu (inquirer-config.js:22-85)
mainMenuChoices(env) ==
    IF isUnset(env.BRAINTRUST_API_KEY) THEN {"login", "exit"}
    ELSE IF isUnset(env.BRAINTRUST_PROJECT_NAME) THEN {"login", "selectProject", "exit"}
    ELSE {"login", "selectProject", "exportData", "exit"}

\* JSON.stringify({ name, id }) of a choice (inquirer-config.js:120) and JSON.parse
\* of the chosen value (app.js:111): a name that is undefined is left out
jsonStringify(p) ==
    [hasName |-> p.name # <<>>, name |-> IF p.name # <<>> THEN p.name[1] ELSE "",
     id |-> p.id[1]]
jsonParse(j) == [name |-> IF j.hasName THEN <<j.name>> ELSE <<>>, id |-> <<j.id>>]

Snapshot(c) ==
    [key |-> c.BRAINTRUST_API_KEY, name |-> c.BRAINTRUST_PROJECT_NAME,
     id |-> c.BRAINTRUST_PROJECT_ID]

\* the case ends: its break, or its catch block, and the loop shows the main menu
BackToMain(c, message) == [c EXCEPT !.pc = "main", !.shown = message]

\* what is typed at the prompts, and what the service knows
TypedKeys == { <<>>, <<" ">>, <<"K1">>, <<" ", "K2", " ">> }
TypedAnswers == { <<>>, <<"n">>, <<"y">>, <<"Y", "E", "S">> }
TypedIds == { <<>>, <<" ">>, <<"p1">>, <<" ", "p2", " ">> }
TypedDirs == { <<>>, <<"out">> }
ProjAlpha == [name |-> <<"Alpha">>, id |-> <<"p1">>]
ProjNoName == [name |-> <<>>, id |-> <<"p2">>]
ProjectLists == { <<>>, <<ProjAlpha>>, <<ProjAlpha, ProjNoName>> }

\* selectMenu(getMenuConfig("main")) resolved (app.js:23-26) and the case runs to its
\* first await
MainChoice(menuChoice) ==
    /\ cli.pc = "main"
    /\ menuChoice \in mainMenuChoices(cli)
    /\ LET c == [cli EXCEPT !.before = Snapshot(cli), !.shown = "none"]
       IN  cli' =
             CASE menuChoice = "login" ->
                    IF ~isUnset(cli.BRAINTRUST_API_KEY)
                    THEN [c EXCEPT !.pc = "confirm"]
                    ELSE [c EXCEPT !.pc = "keyPrompt"]
               [] menuChoice = "selectProject" ->
                    IF isUnset(cli.BRAINTRUST_API_KEY)
                    THEN BackToMain(c, "Please login first")
                    ELSE [c EXCEPT !.pc = "method"]
               [] menuChoice = "exportData" ->
                    IF isUnset(cli.BRAINTRUST_API_KEY)
                    THEN BackToMain(c, "Please login first")
                    ELSE IF isUnset(cli.BRAINTRUST_PROJECT_NAME)
                    THEN BackToMain(c, "Please select a project first")
                    ELSE [c EXCEPT !.pc = "dirPrompt"]
               [] OTHER -> [c EXCEPT !.pc = "exited", !.shown = "Goodbye!"]
    /\ UNCHANGED outsideCli

\* the confirmation menu of the login case (app.js:50-58); getApiKey(true) returns
\* the key of the environment, which is set here (utils.js:48-52)
Confirmed(confirmation) ==
    /\ cli.pc = "confirm"
    /\ confirmation \in {"keepKey", "updateKey"}
    /\ cli' = IF confirmation = "keepKey"
              THEN BackToMain(cli, "Keeping existing API key")
              ELSE [cli EXCEPT !.apiKey = cli.BRAINTRUST_API_KEY, !.pc = "verifying"]
    /\ UNCHANGED outsideCli

\* getApiKey: the key is typed (utils.js:66-70)
KeyEntered(typed) ==
    /\ cli.pc = "keyPrompt"
    /\ typed \in TypedKeys
    /\ cli' = IF joinPieces(typed) = "" \/ trim(typed) = ""
              THEN BackToMain(cli, "Error: API key is required")
              ELSE [cli EXCEPT !.typed = typed, !.pc = "savePrompt"]
    /\ UNCHANGED outsideCli

\* getApiKey: the answer to `Save API key to .env file?` (utils.js:72-91)
SaveAnswered(shouldSave, fsOk) ==
    /\ cli.pc = "savePrompt"
    /\ shouldSave \in TypedAnswers
    /\ cli' = [cli EXCEPT
                 !.envFile = IF /\ shouldSave # <<>>
                                /\ toLowerCase(shouldSave) \in {<<"y">>, <<"y", "e", "s">>}
                                /\ fsOk
                             THEN trim(cli.typed) ELSE @,
                 !.apiKey = trim(cli.typed),
                 !.pc = "verifying"]
    /\ UNCHANGED outsideCli

\* verifyApiKey(apiKey) resolved (app.js:65-72; utils.js:97-112)
Verified(isValid) ==
    /\ cli.pc = "verifying"
    /\ cli' = IF isValid
              THEN BackToMain([cli EXCEPT !.BRAINTRUST_API_KEY = cli.apiKey],
                              "API key verified and saved")
              ELSE BackToMain(cli, "Invalid API key")
    /\ UNCHANGED outsideCli

\* the selection method is chosen (app.js:86-96, 120-127)
MethodChosen(selectionMethod) ==
    /\ cli.pc = "method"
    /\ selectionMethod \in {"back", "selectByList", "selectById"}
    /\ cli' = CASE selectionMethod = "back" -> BackToMain(cli, "back")
                [] selectionMethod = "selectByList" -> [cli EXCEPT !.pc = "listing"]
                [] OTHER -> [cli EXCEPT !.retryCount = 0, !.pc = "idPrompt"]
    /\ UNCHANGED outsideCli

\* listProjects resolved or rejected (app.js:96-104, 163-165)
ProjectsFetched(ok, projects) ==
    /\ cli.pc = "listing"
    /\ projects \in ProjectLists
    /\ cli' = IF ~ok THEN BackToMain(cli, "Error")
              ELSE IF Len(projects) = 0 THEN BackToMain(cli, "No projects found")
              ELSE [cli EXCEPT !.projects = projects, !.pc = "choosing"]
    /\ UNCHANGED outsideCli

\* a project of the list, or Back, is chosen (app.js:104-118); i = 0 is Back
ProjectChosen(i) ==
    /\ cli.pc = "choosing"
    /\ i \in 0..Len(cli.projects)
    /\ cli' = IF i = 0 THEN BackToMain(cli, "back")
              ELSE LET projectData == jsonParse(jsonStringify(cli.projects[i]))
                   IN  BackToMain([cli EXCEPT
                                     !.BRAINTRUST_PROJECT_NAME = envValue(projectData.name),
                                     !.BRAINTRUST_PROJECT_ID = envValue(projectData.id)],
                                  "Selected project")
    /\ UNCHANGED outsideCli

\* one more attempt is counted (app.js:131-132, 153-159, 126)
AttemptFailed(c) ==
    IF c.retryCount + 1 < maxRetries
    THEN [c EXCEPT !.retryCount = @ + 1, !.pc = "idPrompt"]
    ELSE BackToMain([c EXCEPT !.retryCount = @ + 1], "Maximum retry attempts reached")

\* a project id is typed (app.js:127-137)
IdEntered(typed) ==
    /\ cli.pc = "idPrompt"
    /\ typed \in TypedIds
    /\ cli' = IF joinPieces(typed) = "" \/ trim(typed) = ""
              THEN AttemptFailed(cli)
              ELSE [cli EXCEPT !.projectId = trim(typed), !.pc = "validating"]
    /\ UNCHANGED outsideCli

\* validateProjectId resolved (app.js:137-141, 151-160; part_003:504-511)
Validated(isValid) ==
    /\ cli.pc = "validating"
    /\ cli' = IF isValid THEN [cli EXCEPT !.pc = "gettingProject"] ELSE AttemptFailed(cli)
    /\ UNCHANGED outsideCli

\* getProjectById resolved or rejected (app.js:141-150, 163-165)
ProjectFetched(ok, name) ==
    /\ cli.pc = "gettingProject"
    /\ name \in {<<>>, <<"Alpha">>}
    /\ cli' = IF ok
              THEN BackToMain([cli EXCEPT !.BRAINTRUST_PROJECT_NAME = envValue(name),
                                         !.BRAINTRUST_PROJECT_ID = envValue(<<cli.projectId>>)],
                              "Selected project")
              ELSE BackToMain(cli, "Error")
    /\ UNCHANGED outsideCli

\* the output directory is typed and exportProjectData is called (app.js:180-198)
DirEntered(typed) ==
    /\ cli.pc = "dirPrompt"
    /\ typed \in TypedDirs
    /\ LET useProjectId == ~isUnset(cli.BRAINTRUST_PROJECT_ID)
       IN  cli' = [cli EXCEPT
                     !.exported =
                        [called |-> TRUE,
                         apiKey |-> cli.BRAINTRUST_API_KEY,
                         projectNameOrId |-> IF useProjectId THEN cli.BRAINTRUST_PROJECT_ID
                                             ELSE cli.BRAINTRUST_PROJECT_NAME,
                         outputDir |-> IF joinPieces(typed) = "" THEN "./exports"
                                       ELSE joinPieces(typed),
                         isId |-> useProjectId,
                         projectName |-> cli.BRAINTRUST_PROJECT_NAME],
                     !.pc = "exporting"]
    /\ UNCHANGED outsideCli

\* exportProjectData returned or threw (app.js:199-207)
ExportSettled(ok) ==
    /\ cli.pc = "exporting"
    /\ cli' = BackToMain(cli, IF ok THEN "Export completed successfully!" ELSE "Error")
    /\ UNCHANGED outsideCli

\* app.js:9-20: the environment at startup, as dotenv and the shell left it
InitMenu ==
    /\ RetryIdle
    /\ bk = BkIdle
    /\ FetchIdle
    /\ StreamIdle
    /\ ExportIdle
    /\ sf = SfIdle
    /\ fo = FoIdle
    /\ \E key \in {"", "undefined", "K0"}, name \in {"", "Old"}, id \in {"", "undefined", "p0"} :
         cli = [CliIdle EXCEPT !.pc = "main", !.BRAINTRUST_API_KEY = key,
                               !.BRAINTRUST_PROJECT_NAME = name, !.BRAINTRUST_PROJECT_ID = id,
                               !.envFile = IF isUnset(key) THEN "" ELSE key,
                               !.before = [key |-> key, name |-> name, id |-> id]]

NextMenu ==
    \/ \E menuChoice \in {"login", "selectProject", "exportData", "exit"} :
         MainChoice(menuChoice)
    \/ \E confirmation \in {"keepKey", "updateKey"} : Confirmed(confirmation)
    \/ \E typed \in TypedKeys : KeyEntered(typed)
    \/ \E shouldSave \in TypedAnswers, fsOk \in BOOLEAN : SaveAnswered(shouldSave, fsOk)
    \/ \E isValid \in BOOLEAN : Verified(isValid)
    \/ \E selectionMethod \in {"back", "selectByList", "selectById"} :
         MethodChosen(selectionMethod)
    \/ \E ok \in BOOLEAN, projects \in ProjectLists : ProjectsFetched(ok, projects)
    \/ \E i \in 0..2 : ProjectChosen(i)
    \/ \E typed \in TypedIds : IdEntered(typed)
    \/ \E isValid \in BOOLEAN : Validated(isValid)
    \/ \E ok \in BOOLEAN, name \in {<<>>, <<"Alpha">>} : ProjectFetched(ok, name)
    \/ \E typed \in TypedDirs : DirEntered(typed)
    \/ \E ok \in BOOLEAN : ExportSettled(ok)

SpecMenu == InitMenu /\ [][NextMenu]_vars

(***************************************************************************)
(* Properties of withRetry and calculateBackoff.                           *)
(***************************************************************************)
\* retryable as the specification defines it: status 429, status >= 500, or a
\* connection-reset / timeout transport code
ClaimRetryable(e) ==
    \/ (e.hasResponse /\ e.status = 429)
    \/ (e.hasResponse /\ e.status >= 500)
    \/ e.code \in {"ECONNRESET", "ETIMEDOUT"}

\* withRetry can take no further step: it returned, it threw, or its suspension
\* never ends
RunOver ==
    \/ wpc \in {"returned", "thrown"}
    \/ (wpc = "sleeping" /\ ~sleepResolves(lastSleep.delay))

\* C1: when every attempt fails with a retryable error, the call is invoked exactly
\* maxRetries + 1 times and the error of the last attempt is raised; the call is
\* never invoked a (maxRetries + 2)-th time.
C1_ExactlyNPlusOneCalls ==
    /\ wpc # "idle" => calls <= config.maxRetries + 1
    /\ (RunOver /\ wpc # "returned" /\ ClaimRetryable(lastError))
        => /\ wpc = "thrown"
           /\ calls = config.maxRetries + 1
           /\ outcome.error = lastError
           /\ lastError.id = calls

\* the part of C1 that the code keeps: the bound on invocations always, and the
\* exact count whenever withRetry raises
C1_HoldsWhenRaised ==
    /\ wpc # "idle" => calls <= config.maxRetries + 1
    /\ (wpc = "thrown" /\ ClaimRetryable(lastError))
        => /\ calls = config.maxRetries + 1
           /\ outcome.error = lastError
           /\ lastError.id = calls

\* C2: a non-retryable failure is raised as the same error object, with no
\* suspension and no further invocation; on the first attempt that is one
\* invocation and zero waits.
C2_NonRetryablePropagates ==
    /\ [](wpc = "thrown" /\ ~ClaimRetryable(lastError)
            => /\ outcome = [kind |-> "error", value |-> NoValue, error |-> lastError]
               /\ lastError.id = calls
               /\ sleepCount = calls - 1
               /\ trace[Len(trace)] = "call"
               /\ (attempt = 0 => calls = 1 /\ sleepCount = 0))
    /\ [][(wpc = "awaiting" /\ wpc' \in {"sleeping", "thrown"}
             /\ ~ClaimRetryable(lastError'))
            => /\ wpc' = "thrown"
               /\ outcome'.error = lastError'
               /\ calls' = calls
               /\ sleepCount' = sleepCount
               /\ trace' = trace]_vars
    /\ [][wpc = "thrown" => wpc' = "thrown" /\ calls' = calls]_vars

C2_Witness ==
    /\ wpc = "thrown"
    /\ lastError.hasResponse /\ lastError.status = 404 /\ lastError.code = "none"
    /\ calls = 1 /\ sleepCount = 0
    /\ config.maxRetries >= 1

\* C3: with attempts left, a failure is retried if and only if its status is 429,
\* its status is >= 500, or its transport code is ECONNRESET or ETIMEDOUT.
C3_RetryableIff ==
    [][(wpc = "awaiting" /\ wpc' \in {"sleeping", "thrown"})
         => ((wpc' = "sleeping")
               <=> (ClaimRetryable(lastError') /\ attempt < config.maxRetries))]_vars

\* a 400 is raised at attempt 1, with attempts left, after a retried failure
C3_Witness ==
    /\ wpc = "thrown"
    /\ attempt = 1 /\ attempt < config.maxRetries
    /\ sleepCount = 1
    /\ lastError.hasResponse /\ lastError.status = 400 /\ lastError.code = "none"

\* the Retry-After values that are finite numbers > 0, with ceil(s * 1000)
ValidRetryAfterMs ==
    ( <<"2">> :> 2000 ) @@
    ( <<"0", ".", "2", "9", "4">> :> 294 ) @@
    ( <<"0", ".", "2", "9", "4", "5">> :> 295 ) @@
    ( <<" ", "4", "5">> :> 45000 )

HintIsValid(e) ==
    /\ e.hasResponse /\ e.status = 429
    /\ e.retryAfter.present
    /\ e.retryAfter.text \in DOMAIN ValidRetryAfterMs

\* C4: one 429 failure with a valid Retry-After of s seconds, then success:
\* exactly one suspension of exactly ceil(s * 1000) ms, no jitter, between the two
\* invocations, and the success value is returned.
C4_RetryAfterExactWait ==
    (wpc = "returned" /\ calls = 2 /\ HintIsValid(lastError))
        => /\ sleepCount = 1
           /\ lastSleep.delay = Ms(ValidRetryAfterMs[lastError.retryAfter.text])
           /\ lastSleep.useRetryAfter
           /\ trace = <<"call", "sleep", "call">>
           /\ outcome = [kind |-> "value", value |-> callValue, error |-> NoError]
           /\ callValue \in {<<v>> : v \in Values}

C4_Witness ==
    /\ wpc = "returned" /\ calls = 2
    /\ lastError.status = 429
    /\ lastError.retryAfter = Hdr(<<"0", ".", "2", "9", "4", "5">>)
    /\ lastSleep.delay = Ms(295)
    /\ outcome.value = <<"v2">>

\* C5: the Retry-After hint replaces the computed delay if and only if the status
\* is 429 and the header parses to a finite number > 0; otherwise the delay is the
\* computed exponential backoff and the hint raises no error.
C5_HintIffValid ==
    wpc = "sleeping"
        => /\ lastSleep.useRetryAfter <=> HintIsValid(lastError)
           /\ ~HintIsValid(lastError)
                => lastSleep.delay =
                     Ms(calculateBackoff(attempt, Rat(config.initialBackoff, 1),
                                         Rat(config.maxBackoff, 1), lastSleep.rnd))

\* C6: the delay d of calculateBackoff satisfies
\*   min(2^attempt * initialMs, maxMs) - 1 < d <= 1.25 * min(2^attempt * initialMs, maxMs),
\* so d <= 1.25 * maxMs, and the pre-jitter value is non-decreasing in attempt.
ClaimCapped(a, initialMs, maxMs) ==
    IF Pow(2, a) * initialMs.num * maxMs.den <= maxMs.num * initialMs.den
    THEN Rat(Pow(2, a) * initialMs.num, initialMs.den)
    ELSE maxMs

C6_BackoffBounds ==
    bk.phase = "applied"
        => LET c == ClaimCapped(bk.attemptNumber, bk.initialBackoff, bk.maxBackoff)
               d == bk.result
           IN  /\ c.num - c.den < d * c.den
               /\ 4 * d * c.den <= 5 * c.num
               /\ 4 * d * bk.maxBackoff.den <= 5 * bk.maxBackoff.num
               /\ cappedDelay(bk.attemptNumber, bk.initialBackoff, bk.maxBackoff) = c
               /\ RLeq(c, cappedDelay(bk.attemptNumber + 1, bk.initialBackoff,
                                      bk.maxBackoff))

\* the cap is active, jitter was added, and the pre-jitter value is no integer
C6_Witness ==
    /\ bk.phase = "applied"
    /\ RLt(bk.maxBackoff, exponentialDelay(bk.attemptNumber, bk.initialBackoff))
    /\ bk.result > RCeil(bk.maxBackoff)
    /\ bk.maxBackoff.num % bk.maxBackoff.den # 0

(***************************************************************************)
(* Properties of the paginated fetchers.                                   *)
(***************************************************************************)
\* the records of a fetched page, as the remote contract gives them: the events
\* array (for a dataset also a records array), else no records
PageRecordsOf(kind, d) ==
    IF d.events.defined THEN d.events
    ELSE IF kind = "dataset" /\ d.records.defined THEN d.records
    ELSE EmptyArray

\* the page returned a present, non-empty cursor
CursorPresent(d) == ~d.isNull /\ d.cursor.kind = "string" /\ d.cursor.text # ""

\* the page calls for another page: a present cursor and a non-empty batch
Continues(kind, d) == CursorPresent(d) /\ PageRecordsOf(kind, d).length > 0

\* the pages for which a request was issued
RequestedPages == {requests[i].page : i \in DOMAIN requests}

ExamplePages ==
    << [isNull |-> FALSE, events |-> Array("ab", 2), records |-> NoArray,
        cursor |-> Str("x")],
       [isNull |-> FALSE, events |-> EmptyArray, records |-> NoArray,
        cursor |-> Str("x")] >>

\* C7: after a fetched page another page is requested if and only if the page
\* returned a present cursor and a non-empty batch; pages [{[a,b], "x"}, {[], "x"}]
\* give exactly one batch [a,b] and no third request.
C7_ContinueIffCursorAndRecords ==
    /\ \A k \in DOMAIN pages :
          (k + 1) \in RequestedPages => Continues(fkind, pages[k])
    /\ \A k \in DOMAIN pages :
          Continues(fkind, pages[k])
            => \/ (k + 1) \in RequestedPages
               \/ (k = Len(pages) /\ fpc \in {"yielded", "throttling", "closed"})
    /\ fpc = "done" => Len(pages) >= 1 /\ ~Continues(fkind, pages[Len(pages)])
    /\ pages = ExamplePages
          => /\ batches = <<Array("ab", 2)>>
             /\ fpc = "done"
             /\ RequestedPages = {1, 2}

C7_Witness ==
    /\ pages = ExamplePages
    /\ fkind = "experiment"
    /\ fpc = "done"
    /\ batches = <<Array("ab", 2)>>
    /\ Len(requests) = 2

RECURSIVE NonEmptyRecords(_, _)
NonEmptyRecords(kind, ps) ==
    IF ps = <<>> THEN <<>>
    ELSE LET r == PageRecordsOf(kind, Head(ps))
         IN  (IF r.length > 0 THEN <<r>> ELSE <<>>) \o NonEmptyRecords(kind, Tail(ps))

\* C8: the batches emitted are exactly the non-empty records lists of the pages
\* fetched, in fetch order: no empty batch, no page skipped, none emitted twice.
C8_BatchesAreNonEmptyPages ==
    /\ batches = NonEmptyRecords(fkind, pages)
    /\ \A i \in DOMAIN batches : batches[i].length > 0

\* two batches of different pages, then an empty page that ends the run
C8_Witness ==
    /\ Len(pages) = 3
    /\ Len(batches) = 2
    /\ batches[1] = Array("full", 1000)
    /\ batches[2] = Array("ab", 2)
    /\ pages[3].events = EmptyArray
    /\ fpc = "done"

\* C9: the first page request carries no cursor; every later one carries exactly
\* the cursor of the immediately preceding page; retries re-send the same cursor.
C9_CursorChain ==
    \A i \in DOMAIN requests :
        LET r == requests[i]
        IN  /\ r.page \in 1..(Len(pages) + 1)
            /\ r.page = 1 => r.body.cursor = Undef
            /\ r.page > 1 => /\ r.body.cursor = pages[r.page - 1].cursor
                            /\ CursorPresent(pages[r.page - 1])
            /\ i > 1 => /\ requests[i - 1].page \in {r.page - 1, r.page}
                        /\ requests[i - 1].page = r.page
                             => requests[i - 1].body = r.body

\* page 2 is asked for with cursor "x", retried once, and page 3 with cursor "y"
C9_Witness ==
    /\ Len(requests) = 4
    /\ requests[2].page = 2 /\ requests[2].body.cursor = Str("x")
    /\ requests[3].page = 2 /\ requests[3].body.cursor = Str("x")
    /\ requests[4].page = 3 /\ requests[4].body.cursor = Str("y")

RECURSIVE EmittedBy(_)
\* number of records in the first k batches
EmittedBy(k) == IF k <= 0 THEN 0 ELSE batches[k].length + EmittedBy(k - 1)

\* C10: between two consecutive page requests the 3000 ms proactive delay is
\* inserted if and only if the cumulative number of emitted records has reached
\* 1000; none below 1000 and none after the last page.
C10_ProactiveDelayIffThousand ==
    /\ \A k \in DOMAIN gaps :
          /\ k <= Len(pages)
          /\ gaps[k] = IF Continues(fkind, pages[k]) /\ EmittedBy(k) >= 1000
                       THEN 3000 ELSE 0
    /\ \A k \in DOMAIN pages : (k + 1) \in RequestedPages => k \in DOMAIN gaps
    /\ fpc = "throttling"
          => /\ Len(gaps) = Len(pages)
             /\ gaps[Len(gaps)] = 3000
             /\ (Len(pages) + 1) \notin RequestedPages
    /\ fpc = "done" => Len(gaps) = Len(pages) /\ gaps[Len(gaps)] = 0

\* 2 + 998 records: no delay after page 1, the delay after page 2
C10_Witness ==
    /\ fpc = "throttling"
    /\ gaps = <<0, 3000>>
    /\ Len(batches) = 2
    /\ batches[1].length = 2
    /\ batches[2].length = 998
    /\ totalFetched = 1000

\* the generator has ended: it finished, it raised, or the consumer closed it
Stopped == fpc \in {"done", "failed", "closed"}

\* C11: for every sequence of pages the service may return, the fetcher eventually
\* stops issuing page requests.
C11_FetcherTerminates == <>Stopped

\* the part of C11 that the code keeps: the fetcher stops unless the service goes
\* on returning pages with a present cursor and a non-empty batch for ever
C11_StopsUnlessPagesContinue ==
    <>Stopped \/ []<>(fpc = "yielded" /\ Continues(fkind, response))

\* the number of times the request for page p was posted
AttemptsOf(p) == Cardinality({i \in DOMAIN requests : requests[i].page = p})

\* the error raised to the consumer stems from a failure the specification calls
\* transient: HTTP 429 or 5xx, connection reset, timeout
TransientRaised(e) ==
    \/ e.code \in {"ECONNRESET", "ETIMEDOUT"}
    \/ \E st \in {429, 500, 503} : e.message = "API Error: " \o ToString(st)

\* C12: each page request is attempted at most 5 times; transient failures within
\* that budget are invisible to the consumer; the error is raised to the consumer
\* when the budget is exhausted or the failure is not transient, and no page
\* request follows it.
C12_RetryBudgetPerPage ==
    /\ [](\A p \in RequestedPages : AttemptsOf(p) <= 5)
    /\ [](batches = NonEmptyRecords(fkind, pages))
    /\ [](fpc = "failed"
            => /\ wpc = "thrown"
               /\ outcome.error = lastError
               /\ TransientRaised(lastError) => AttemptsOf(Len(pages) + 1) = 5)
    /\ [][fpc = "failed" => UNCHANGED <<fpc, requests>>]_vars

\* a 429 on the first attempt for page 1 was retried and the page was yielded
C12_Witness ==
    /\ fpc = "yielded"
    /\ Len(pages) = 1
    /\ AttemptsOf(1) = 2
    /\ lastError.hasResponse /\ lastError.status = 429
    /\ Len(batches) = 1

\* five attempts for page 1 were answered with 503 and the error was raised
C12_WitnessExhausted ==
    /\ fpc = "failed"
    /\ AttemptsOf(1) = 5
    /\ lastError.hasResponse /\ lastError.status = 503

\* the pages requested and not yet received
InFlight == RequestedPages \ (1..Len(pages))

\* C13: the fetcher is pull-based with at most one page in flight and no backlog:
\* page n+1 is requested only after the consumer has taken batch n and asked for
\* the next one, so the pages requested never exceed the batches taken plus one.
C13_PullBasedOnePageInFlight ==
    /\ Cardinality(RequestedPages) <= pulls
    /\ pulls <= Len(batches) + 1
    /\ Cardinality(RequestedPages) <= Len(batches) + 1
    /\ Cardinality(InFlight) <= 1
    /\ fpc = "yielded" => InFlight = {} /\ wpc = "returned" /\ pulls = Len(batches)

\* the consumer holds batch 2 of a page that calls for a third page
C13_Witness ==
    /\ fpc = "yielded"
    /\ Len(batches) = 2
    /\ pulls = 2
    /\ Continues(fkind, pages[2])
    /\ totalFetched >= 1000
    /\ RequestedPages = {1, 2}

\* C14: once the consumer abandons the iteration, the fetcher issues no further
\* remote call and performs no further proactive delay.
C14_NoCallAfterAbandon ==
    /\ [](fpc = "closed" => wpc \in {"idle", "returned"} /\ ~ENABLED NextFetch)
    /\ [][fpc = "closed" => UNCHANGED <<fpc, wpc, requests, calls, sleepCount, gaps>>]_vars

\* abandoned after a batch whose page calls for another page and for the delay
C14_Witness ==
    /\ fpc = "closed"
    /\ Len(batches) = 1
    /\ Continues(fkind, pages[1])
    /\ totalFetched >= 1000
    /\ RequestedPages = {1}
    /\ gaps = <<>>

(***************************************************************************)
(* Properties of streamCSVToFile.                                          *)
(***************************************************************************)
\* the key paths of a record: the '.'-joined paths to its leaves
RECURSIVE KeyPathsOf(_, _)
KeyPathsOf(fields, prefix) ==
    UNION { LET path == IF prefix = <<>> THEN fields[i].key
                        ELSE prefix \o <<".">> \o fields[i].key
            IN  IF fields[i].val.t = "object"
                THEN KeyPathsOf(fields[i].val.fields, path)
                ELSE {path} : i \in DOMAIN fields }

PathsOfAll(runs) == UNION {KeyPathsOf(runs[i].rec.fields, <<>>) : i \in DOMAIN runs}

\* the same records, with adjacent runs of one record joined
RECURSIVE Normalize(_)
Normalize(runs) ==
    IF Len(runs) <= 1 THEN runs
    ELSE LET rest == Normalize(Tail(runs))
         IN  IF Head(runs).rec = Head(rest).rec
             THEN <<Run(Head(runs).rec, Head(runs).count + Head(rest).count)>> \o Tail(rest)
             ELSE <<Head(runs)>> \o rest

\* this run has written the file
Wrote == \E i \in DOMAIN fsLog : fsLog[i].ok

RECURSIVE DataRows(_)
\* the number of data rows among the lines
DataRows(lines) ==
    IF lines = <<>> THEN 0
    ELSE (IF Head(lines).kind = "row" THEN Head(lines).count ELSE 0) + DataRows(Tail(lines))

Columns == {headers.fields[i] : i \in DOMAIN headers.fields}

\* C15: the HeaderSet is locked exactly once in a run and never changes afterwards;
\* every row written has exactly the HeaderSet columns, so a key path outside the
\* HeaderSet is dropped from the row and never becomes a column.
C15_HeaderLockedOnce ==
    /\ [](Len(locks) <= 1)
    /\ [](IF headers.isNull THEN locks = <<>> ELSE locks = <<headers.fields>>)
    /\ []((spc = "returned" /\ Length(delivered) > 0) => Len(locks) = 1)
    /\ [](Wrote => /\ file.lines[1] = [kind |-> "header", cells |-> headers.fields,
                                       count |-> 1]
                   /\ \A i \in 2..Len(file.lines) :
                         /\ file.lines[i].kind = "row"
                         /\ Len(file.lines[i].cells) = Len(headers.fields))
    /\ [][~headers.isNull => headers' = headers]_vars
    /\ [][(~isBuffering /\ taken' = taken + 1) => isBuffering' = isBuffering]_vars

\* a record with the key z was appended under the columns x, y
C15_Witness ==
    /\ spc = "returned"
    /\ headers.fields = << <<"x">>, <<"y">> >>
    /\ taken = 2
    /\ Len(delivered) = 2
    /\ delivered[2] = Run(RecXYZ, 500)
    /\ Len(file.lines) = 3
    /\ file.lines[3].cells = <<Num(5), Num(6)>>

\* strictly increasing in the order of code units: sorted and free of duplicates
SortedNoDuplicates(fields) ==
    \A i, j \in DOMAIN fields : i < j => KeyLess(fields[i], fields[j])

\* C16: at lock time the HeaderSet is the sorted, duplicate-free union of the
\* flattened key paths of all records buffered so far, whether the lock comes from
\* the buffer reaching 1000 records or from the input ending below 1000 (ten
\* records give a header derived from all ten).
C16_HeaderIsSortedUnion ==
    /\ [][locks' # locks
            => /\ locks' = <<headers'.fields>>
               /\ SortedNoDuplicates(headers'.fields)
               /\ {headers'.fields[i] : i \in DOMAIN headers'.fields}
                    = PathsOfAll(delivered')
               /\ (taken' = taken => Length(delivered') < 1000)
               /\ (taken' # taken => Length(delivered') >= 1000 /\ Length(delivered) < 1000)
       ]_vars
    /\ []((spc = "returned" /\ delivered = TenRecords)
            => /\ headers.fields = << <<"Z">>, <<"a", ".", "b">>, <<"c">>, <<"x">>, <<"y">> >>
               /\ summary.recordCount = 10)

C16_Witness ==
    /\ spc = "returned"
    /\ delivered = TenRecords
    /\ taken = 1
    /\ headers.fields = << <<"Z">>, <<"a", ".", "b">>, <<"c">>, <<"x">>, <<"y">> >>
    /\ file.lines[1].cells = headers.fields

\* the example: records 1-1000 have the keys x, y and records 1001-1500 add z
DriftExample == <<Run(RecXY, 1000), Run(RecXYZ, 500)>>

\* C17: fed the 1500 records of the example, however they are split into batches,
\* streamCSVToFile locks HeaderSet = [x, y], reports schemaDriftDetected = true and
\* writes no z column.
C17_HeaderFromFirstThousand ==
    (spc = "returned" /\ Normalize(delivered) = DriftExample)
        => /\ headers.fields = << <<"x">>, <<"y">> >>
           /\ summary.schemaDriftDetected
           /\ file.lines[1].cells = << <<"x">>, <<"y">> >>
           /\ summary.recordCount = 1500

\* the part of C17 that the code keeps: the example gives [x, y] and the drift
\* flag when a batch ended exactly at record 1000, so that the buffered write was
\* followed by an append
C17_HoldsWhenBatchEndsAtThousand ==
    (spc = "returned" /\ Normalize(delivered) = DriftExample /\ Len(fsLog) > 1)
        => /\ headers.fields = << <<"x">>, <<"y">> >>
           /\ summary.schemaDriftDetected
           /\ file.lines[1].cells = << <<"x">>, <<"y">> >>
           /\ summary.recordCount = 1500

\* C18: on normal completion recordCount equals the number of records in all input
\* batches and the number of data rows of the file: one row per record.
C18_RecordCountIsRowsIsInput ==
    spc = "returned"
        => /\ summary.recordCount = Length(delivered)
           /\ recordCount = Length(delivered)
           /\ Length(delivered) > 0
                => /\ Wrote
                   /\ DataRows(file.lines) = Length(delivered)
                   /\ Len(file.lines) = Len(delivered) + 1
                   /\ \A i \in DOMAIN delivered :
                         file.lines[i + 1].count = delivered[i].count

\* 1500 records in three batches: one buffered write and one append
C18_Witness ==
    /\ spc = "returned"
    /\ summary.recordCount = 1500
    /\ taken = 3
    /\ Len(fsLog) = 2
    /\ DataRows(file.lines) = 1500

\* C19: the data rows appear in the order the records were delivered, across the
\* buffered initial write and all later appends.
C19_RowsInDeliveryOrder ==
    (Wrote /\ spc # "thrown")
        => /\ Len(file.lines) = Len(delivered) + 1
           /\ \A i \in DOMAIN delivered :
                 /\ file.lines[i + 1].kind = "row"
                 /\ file.lines[i + 1].count = delivered[i].count
                 /\ file.lines[i + 1].cells =
                      [j \in DOMAIN headers.fields |->
                          getProp(flattenObject(delivered[i].rec), headers.fields[j])]

\* two batches buffered and written together, then two appends
C19_Witness ==
    /\ spc = "iterating"
    /\ Len(fsLog) = 2
    /\ taken = 3
    /\ Len(delivered) = 4
    /\ Len(file.lines) = 5
    /\ delivered[1].rec = RecXY
    /\ delivered[4].rec = RecXW
    /\ file.lines[5].cells[1] = Num(8)

\* the records the step has received
Received(before, after) == SubSeq(after, Len(before) + 1, Len(after))

\* C20: schemaDriftDetected is true if and only if some record processed after the
\* header lock has a flattened key path outside the HeaderSet; once set it is
\* never reset.
C20_DriftFlagIffNewKey ==
    /\ [](isBuffering => ~schemaDriftDetected)
    /\ [](spc = "returned" => summary.schemaDriftDetected = schemaDriftDetected)
    /\ [][schemaDriftDetected => schemaDriftDetected']_vars
    /\ [][(~isBuffering /\ taken' = taken + 1)
            => (schemaDriftDetected'
                  <=> (schemaDriftDetected
                         \/ ~(PathsOfAll(Received(delivered, delivered')) \subseteq Columns)))
       ]_vars
    /\ [][isBuffering => ~schemaDriftDetected']_vars

\* drift in the second batch, none in the third: the flag stays set
C20_Witness ==
    /\ spc = "returned"
    /\ summary.schemaDriftDetected
    /\ taken = 3
    /\ Len(delivered) = 4
    /\ delivered[3] = Run(RecXYZ, 500)
    /\ delivered[4] = Run(RecXY, 400)
    /\ warnings = << << <<"z">> >> >>

\* the key paths the step's records bring that are no columns of the file
NewPaths(before, after) == PathsOfAll(Received(before, after)) \ Columns

\* C21: the drift warning naming the new fields is logged exactly once in a run if
\* any record streamed after the lock has a key outside the HeaderSet, and never
\* otherwise; a later batch with new keys, even other ones, logs nothing more.
C21_DriftWarnedOnce ==
    /\ [](Len(warnings) <= 1)
    /\ [](isBuffering => warnings = <<>>)
    /\ [][isBuffering => warnings' = warnings]_vars
    /\ [][(~isBuffering /\ taken' = taken + 1)
            => IF warnings = <<>> /\ NewPaths(delivered, delivered') # {}
               THEN /\ Len(warnings') = 1
                    /\ {warnings'[1][i] : i \in DOMAIN warnings'[1]}
                         = NewPaths(delivered, delivered')
               ELSE warnings' = warnings]_vars
    /\ [][taken' = taken => warnings' = warnings]_vars

\* z is new in the second batch and w in the third: one warning, naming z
C21_Witness ==
    /\ spc = "returned"
    /\ taken = 3
    /\ Len(delivered) = 3
    /\ delivered[2] = Run(RecXYZ, 500)
    /\ delivered[3] = Run(RecXW, 1)
    /\ headers.fields = << <<"x">>, <<"y">> >>
    /\ warnings = << << <<"z">> >> >>

\* C22: at every point of a run the buffer of records not yet written holds at
\* most INITIAL_BUFFER_SIZE = 1000 records, whatever the sizes of the batches,
\* an array passed as input included.
C22_BufferAtMostThousand ==
    /\ Length(buffer) <= INITIAL_BUFFER_SIZE
    /\ bufferPeak <= INITIAL_BUFFER_SIZE

\* the part of C22 that the code keeps: between two batches the buffer holds fewer
\* than 1000 records, and it never held more than the records delivered up to the
\* batch that crossed the threshold
C22_HoldsBetweenBatches ==
    /\ spc \in {"iterating", "returned"} => Length(buffer) < INITIAL_BUFFER_SIZE
    /\ bufferPeak <= Length(delivered)
    /\ ~isBuffering => Length(buffer) = 0

\* C23: when the input yields no record at all (no batch, or empty batches only),
\* streamCSVToFile makes no write to the output path, so that no file is created
\* or modified, and returns recordCount = 0, hadTruncation = false and
\* schemaDriftDetected = false.
C23_NoRecordsNoWrite ==
    /\ [](Length(delivered) = 0 => fsLog = <<>> /\ locks = <<>>)
    /\ [][Length(delivered') = 0 => file' = file]_vars
    /\ []((spc = "returned" /\ Length(delivered) = 0)
            => summary = Returned(0, FALSE, FALSE))

\* two empty batches, then the end of the input: the path is still without a file
C23_Witness ==
    /\ spc = "returned"
    /\ input = "iterable"
    /\ taken = 2
    /\ delivered = <<>>
    /\ file = NoFile
    /\ summary.recordCount = 0

\* the number of header lines among the lines
HeaderLines(lines) == Cardinality({i \in DOMAIN lines : lines[i].kind = "header"})

\* the successful calls of fs.writeFileSync, which writes the header
HeaderWrites == {i \in DOMAIN fsLog : fsLog[i].op = "writeFileSync" /\ fsLog[i].ok}

\* C24: a file written by streamCSVToFile holds the header row exactly once, as
\* its first line: the initial write emits it, no append repeats it, and no
\* sequence of batches leads to a second header-bearing write in one run.
C24_HeaderRowOnceAndFirst ==
    /\ [](Wrote => /\ file.exists
                   /\ Len(file.lines) >= 2
                   /\ file.lines[1] = HeaderLine(headers.fields)
                   /\ HeaderLines(file.lines) = 1)
    /\ [](Cardinality(HeaderWrites) <= 1)
    /\ [](\A i \in DOMAIN fsLog : fsLog[i].op = "writeFileSync" => i = 1)
    /\ [][Wrote => /\ Len(file'.lines) >= Len(file.lines)
                   /\ SubSeq(file'.lines, 1, Len(file.lines)) = file.lines]_vars

\* an initial write, then two appends
C24_Witness ==
    /\ spc = "returned"
    /\ Len(fsLog) = 3
    /\ fsLog[2].op = "appendFileSync" /\ fsLog[3].op = "appendFileSync"
    /\ Wrote
    /\ Len(file.lines) = 4
    /\ file.lines[1] = HeaderLine(<< <<"x">>, <<"y">> >>)
    /\ HeaderLines(file.lines) = 1

\* flattening the record replaces one of its arrays by a placeholder: the array
\* has more than 1000 items, its serialized form has more than 100,000
\* characters, or it cannot be serialized
RECURSIVE ArrayReplaced(_)
ArrayReplaced(fields) ==
    \E i \in DOMAIN fields :
        LET v == fields[i].val
        IN  \/ v.t = "object" /\ ArrayReplaced(v.fields)
            \/ v.t = "array" /\ \/ arrayLength(v.items) > 1000
                                 \/ stringifiedLength(v.items) > 100000
                                 \/ v.circular

AnyReplaced(runs) == \E i \in DOMAIN runs : ArrayReplaced(runs[i].rec.fields)

\* C25: when flattening replaces an array of any record of the run by a truncation
\* or serialization-fault placeholder, the result of the run has hadTruncation =
\* true, whether the record went through the buffered initial write, a streamed
\* append, or the end-of-input write of a run with fewer than 1000 records.
C25_PlaceholderSetsHadTruncation ==
    (spc = "returned" /\ AnyReplaced(delivered)) => summary.hadTruncation

\* the part of C25 that the code keeps: the flag is set when the record was
\* written by the buffered initial write or by a streamed append
C25_HoldsOnceThresholdReached ==
    (spc = "returned" /\ AnyReplaced(delivered) /\ ~isBuffering)
        => summary.hadTruncation /\ hadTruncation

(***************************************************************************)
(* Properties of exportProjectData.                                        *)
(***************************************************************************)
\* the entities of the two lists: every experiment, then every dataset
Listed ==
    [i \in 1..(Len(experiments) + Len(datasets)) |->
        IF i <= Len(experiments) THEN Ent("experiment", i)
        ELSE Ent("dataset", i - Len(experiments))]

IsPrefix(a, b) == Len(a) <= Len(b) /\ SubSeq(b, 1, Len(a)) = a

LastEnded(e) == e[Len(e)]

\* C26: the failure of one entity's export (retries exhausted, permanent remote
\* error, write failure) is caught and does not abort the run: every listed
\* experiment and then every listed dataset is attempted exactly once, in list
\* order, whichever entities failed before, and an entity that succeeds has its
\* file written with its full record count.
C26_EntityFailureIsolated ==
    /\ [](IsPrefix(started, Listed))
    /\ [](epc = "returned" => started = Listed /\ Len(ended) = Len(Listed))
    /\ [](epc = "thrown" => started = <<>>)
    /\ [][(ended' # ended /\ LastEnded(ended').outcome = "failed")
            => /\ epc' = IF Len(ended') = Len(Listed) THEN "returned" ELSE "exporting"
               /\ Len(ended') < Len(Listed)
                    => started' = Append(started, Listed[Len(ended') + 1])]_vars
    /\ [][(ended' # ended /\ LastEnded(ended').outcome = "exported")
            => /\ LastEnded(ended').recordCount = LastEnded(ended').delivered
               /\ LastEnded(ended').recordCount > 0
                    => /\ run.filePath \in DOMAIN disk'
                       /\ disk'[run.filePath] = LastEnded(ended').delivered]_vars

\* the first experiment failed after its retries were exhausted, the second was
\* exported with its 1600 records, and the run has returned
C26_Witness ==
    /\ epc = "returned"
    /\ Len(ended) = 2
    /\ ended[1].outcome = "failed" /\ ended[1].error = "retries exhausted"
    /\ ended[2].outcome = "exported" /\ ended[2].recordCount = 1600
    /\ experiments = <<EntRun1, EntRun1Again>>
    /\ \E f \in DOMAIN disk : disk[f] = 1600

FailedEntities ==
    {Ent(ended[i].kind, ended[i].idx) : i \in {j \in DOMAIN ended : ended[j].outcome = "failed"}}
ExportedEntities ==
    {Ent(ended[i].kind, ended[i].idx) : i \in {j \in DOMAIN ended : ended[j].outcome = "exported"}}

\* a closing line that states the numbers of failures and successes and names
\* the failed entities
SummaryLine ==
    [text |-> "summary", failures |-> Cardinality(FailedEntities),
     successes |-> Cardinality(ExportedEntities), failed |-> FailedEntities]

\* C27: the final report of a run distinguishes exported entities from failed
\* ones: it states k failures and m successes and identifies the failed entities,
\* and a run with a failed entity is not reported as fully successful.
C27_ReportCountsFailures ==
    (epc = "returned" /\ ended # <<>>)
        => /\ \E i \in DOMAIN report : report[i] = SummaryLine
           /\ FailedEntities # {}
                => \A i \in DOMAIN report :
                      report[i].text \notin {"Export complete!",
                                             "Export completed successfully!"}

\* the part of C27 that the code keeps: the failure of an entity is logged, with
\* the entity, at the moment it happens, and so is each export that succeeded
C27_HoldsForLinesPerEntity ==
    /\ Len(console) = Len(ended)
    /\ \A i \in DOMAIN ended :
          /\ console[i].kind = ended[i].kind /\ console[i].idx = ended[i].idx
          /\ console[i].text = "Failed to export" <=> ended[i].outcome = "failed"

ProjectDirs == createProjectDirectories({}, displayName)

\* C28: when both lists are empty, exportProjectData creates no directory, writes
\* no file, requests no page of records and returns normally; otherwise the
\* experiments and datasets directories are created before the first entity is
\* exported, and directories that exist already are no error.
C28_NoDirectoriesWhenNothingToExport ==
    /\ [][(epc = "datasets" /\ epc' # "thrown" /\ experiments' = <<>> /\ datasets' = <<>>)
            => /\ epc' = "returned"
               /\ dirs' = dirs /\ disk' = disk
               /\ ~fetched' /\ started' = <<>> /\ inflight' = {}]_vars
    /\ [](started = <<>> => ~fetched /\ DOMAIN disk = {})
    /\ [](started # <<>>
            => /\ ProjectDirs \subseteq dirs
               /\ \A f \in DOMAIN disk : f.dir \in dirs)
    /\ [][(started = <<>> /\ started' # <<>>) => dirs' = dirs \cup ProjectDirs]_vars
    /\ [][(epc = "datasets" /\ epc' = "returned")
            => experiments' = <<>> /\ datasets' = <<>>]_vars

\* both lists came back empty: nothing was created, and the call returned
C28_Witness ==
    /\ epc = "returned"
    /\ experiments = <<>> /\ datasets = <<>>
    /\ dirs = {}
    /\ DOMAIN disk = {}
    /\ ~fetched
    /\ report = MenuSuccess

\* C29: entities are exported strictly one at a time: at every moment at most one
\* entity export is in progress and at most one remote request is outstanding,
\* and the first page request and the first file write of the next entity come
\* only after the export of the entity before it has completed or failed.
C29_OneEntityAtATime ==
    /\ [](Cardinality(active) <= 1)
    /\ [](Cardinality(inflight) <= 1)
    /\ [](Len(started) = Len(ended) + Cardinality(active))
    /\ [](active # {} => active = {started[Len(started)]})
    /\ [](\A r \in inflight : r.page > 0 => Ent(r.kind, r.idx) \in active)
    /\ [](\A i \in DOMAIN ended : Ent(ended[i].kind, ended[i].idx) = started[i])
    /\ [][disk' # disk
            => /\ active = {Ent(run.kind, run.idx)}
               /\ \A f \in DOMAIN disk' :
                     (f \notin DOMAIN disk \/ disk'[f] # disk[f]) => f = run.filePath]_vars

\* the first page of the second experiment is asked for after the first ended
C29_Witness ==
    /\ epc = "exporting"
    /\ Len(ended) = 1
    /\ started = <<Ent("experiment", 1), Ent("experiment", 2)>>
    /\ inflight = {PageReq("experiment", 2, 1)}
    /\ active = {Ent("experiment", 2)}

\* the file path of an entity (part_003:1051-1052, 1071-1072)
FilePathOf(kind, e) ==
    [dir |-> IF kind = "experiment" THEN experimentsDirOf(displayName)
             ELSE datasetsDirOf(displayName),
     name |-> sanitizeFilename(nameOrId(e), e.id)]

EntityOf(kind, idx) == IF kind = "experiment" THEN experiments[idx] ELSE datasets[idx]

DistinctPaths(kind, list) ==
    \A i, j \in DOMAIN list :
        list[i].id # list[j].id => FilePathOf(kind, list[i]) # FilePathOf(kind, list[j])

\* C30: within one run any two distinct entities of one kind (distinct ids), also
\* entities of the same name, are written to distinct file paths, so that the CSV
\* of one is never overwritten by another.
C30_DistinctEntitiesDistinctPaths ==
    /\ DistinctPaths("experiment", experiments)
    /\ DistinctPaths("dataset", datasets)
    /\ epc = "returned"
          => \A i \in DOMAIN ended :
                (ended[i].outcome = "exported" /\ ended[i].recordCount > 0)
                    => LET f == FilePathOf(ended[i].kind, EntityOf(ended[i].kind, ended[i].idx))
                       IN  f \in DOMAIN disk /\ disk[f] = ended[i].recordCount

\* the part of C30 that the code keeps: entities whose ids differ in their first
\* eight characters get distinct paths, whatever their names
C30_HoldsWhenIdPrefixesDiffer ==
    \A i, j \in DOMAIN experiments :
        idSuffix(experiments[i].id) # idSuffix(experiments[j].id)
            => FilePathOf("experiment", experiments[i])
                 # FilePathOf("experiment", experiments[j])

(***************************************************************************)
(* Properties of sanitizeFilename.                                         *)
(***************************************************************************)
\* the maximal runs of characters of [a-z0-9] (either case) in s, in order
RECURSIVE AlnumWords(_, _)
AlnumWords(s, word) ==
    IF s = <<>> THEN (IF word = <<>> THEN <<>> ELSE <<word>>)
    ELSE IF Head(s) \in AlnumChars THEN AlnumWords(Tail(s), Append(word, Head(s)))
    ELSE (IF word = <<>> THEN <<>> ELSE <<word>>) \o AlnumWords(Tail(s), <<>>)

RECURSIVE JoinedBy(_, _)
JoinedBy(words, sep) ==
    IF words = <<>> THEN <<>>
    ELSE IF Len(words) = 1 THEN words[1]
    ELSE words[1] \o sep \o JoinedBy(Tail(words), sep)

LowerCased(s) == [i \in DOMAIN s |->
                    IF \E k \in 1..26 : UpperLetters[k] = s[i]
                    THEN LowerLetters[CHOOSE k \in 1..26 : UpperLetters[k] = s[i]]
                    ELSE s[i]]

FirstChars(s, n) == [i \in 1..(IF Len(s) < n THEN Len(s) ELSE n) |-> s[i]]

\* the name the claim describes: the words of the name in lower case joined by
\* single underscores (the id's first 8 characters if there is no word), then
\* '_' and the id's first 8 characters
ExpectedFilename(name, id) ==
    LET base == LowerCased(JoinedBy(AlnumWords(name, <<>>), <<"_">>))
    IN  (IF base = <<>> THEN FirstChars(id, 8) ELSE base) \o <<"_">> \o FirstChars(id, 8)

\* C31: sanitizeFilename(name, id), id given, is the lower-cased name with every
\* maximal run of non-alphanumeric characters replaced by one '_' and the '_' at
\* both ends removed, or the first 8 characters of id if nothing is left, followed
\* by '_' and the first 8 characters of id.
C31_SanitizedNameThenIdPrefix ==
    (sf.phase = "applied" /\ sf.id # NoId)
        => sf.result = ExpectedFilename(sf.name, sf.id)

\* "My Project! #1" with id "abcdef1234567890" gives "my_project_1_abcdef12"
C31_Witness ==
    /\ sf.phase = "applied"
    /\ sf.name = MyProject
    /\ sf.id = LongId
    /\ sf.result = <<"m", "y", "_", "p", "r", "o", "j", "e", "c", "t", "_", "1", "_",
                     "a", "b", "c", "d", "e", "f", "1", "2">>

\* a name without any alphanumeric character falls back to the id's prefix
C31_WitnessFallback ==
    /\ sf.phase = "applied"
    /\ sf.name = <<"!", "_", " ">>
    /\ sf.id = LongId
    /\ sf.result = <<"a", "b", "c", "d", "e", "f", "1", "2", "_",
                     "a", "b", "c", "d", "e", "f", "1", "2">>

(***************************************************************************)
(* Properties of exportProjectData: the listing calls and the faults of    *)
(* the file system.                                                        *)
(***************************************************************************)
\* the number of times the request that was made last has been made
AttemptsOfLastGet == Cardinality({i \in DOMAIN gets : gets[i] = gets[Len(gets)]})

\* C32: every remote call of an export run goes through the retry executor, the
\* listing calls included: a listing call that fails with a transient error (429,
\* 5xx, connection reset, timeout) is retried instead of failing the run at once.
C32_ListingCallsRetried ==
    (listingError # NoError /\ shouldRetry(listingError)) => AttemptsOfLastGet > 1

\* what the code does: no listing request is ever made a second time
C32_HoldsThatListingCallsAreMadeOnce ==
    \A i, j \in DOMAIN gets : gets[i] = gets[j] => i = j

\* fs.writeFileSync or fs.appendFileSync threw during the export of some entity
WriteFaultOccurred == \E i \in DOMAIN ended : ended[i].error = "write failure"

\* fs.mkdirSync threw
MkdirFaultOccurred == raised.code = "EACCES"

\* every entity listed was begun and has ended once the call has returned
RunWentThroughAllEntities ==
    epc = "returned" => Len(ended) = Len(experiments) + Len(datasets)

\* C33: a fault of the file system during an export run (a directory that cannot
\* be created, a file that cannot be written or appended to) aborts the export of
\* one entity only: the run continues with the remaining entities and
\* exportProjectData does not raise.
C33_FilesystemFaultAbortsOneEntity ==
    /\ (WriteFaultOccurred \/ MkdirFaultOccurred) => epc # "thrown"
    /\ RunWentThroughAllEntities

\* the part of C33 that the code keeps: a write or append that fails ends the
\* export of its entity and nothing else
C33_HoldsForFileWrites ==
    /\ WriteFaultOccurred => epc # "thrown"
    /\ RunWentThroughAllEntities
    /\ \A i \in DOMAIN ended :
          ended[i].error = "write failure" => ended[i].outcome = "failed"

\* the path of the i-th entity that ended
PathOfEnded(i) == FilePathOf(ended[i].kind, EntityOf(ended[i].kind, ended[i].idx))

\* the entities listed that are written to path f
WrittenTo(f) ==
    {Ent("experiment", i) : i \in {k \in DOMAIN experiments :
                                     FilePathOf("experiment", experiments[k]) = f}}
        \cup {Ent("dataset", i) : i \in {k \in DOMAIN datasets :
                                         FilePathOf("dataset", datasets[k]) = f}}

\* an export starts from the initial values of streamCSVToFile's variables
StartsAfresh ==
    (run # RunNone /\ run.totalFetched = 0)
        => run.buffered = 0 /\ run.recordCount = 0 /\ run.isBuffering

\* the result of an entity that was exported counts the records of that entity
ResultIsOfOwnRecords ==
    \A i \in DOMAIN ended :
        ended[i].outcome = "exported" => ended[i].recordCount = ended[i].delivered

\* the file of the i-th entity that ended holds the rows of that entity
FileIsOfOwnRecords(i) ==
    (ended[i].outcome = "exported" /\ ended[i].recordCount > 0)
        => /\ PathOfEnded(i) \in DOMAIN disk
           /\ disk[PathOfEnded(i)] = ended[i].recordCount

\* C34: no state crosses entity exports. What an entity B ends with (its result
\* and the content of its output file) is determined by B's own records alone, so
\* two runs that differ only in the records or the failure of another entity A
\* agree on B.
C34_EntityOutputsIndependent ==
    /\ StartsAfresh
    /\ ResultIsOfOwnRecords
    /\ \A i \in DOMAIN ended : FileIsOfOwnRecords(i)

\* the part of C34 that the code keeps: the variables of an export are its own,
\* and so is its file unless another entity of the run has the same path
C34_HoldsForEntitiesWithOwnPath ==
    /\ StartsAfresh
    /\ ResultIsOfOwnRecords
    /\ \A i \in DOMAIN ended :
          Cardinality(WrittenTo(PathOfEnded(i))) = 1 => FileIsOfOwnRecords(i)

(***************************************************************************)
(* Properties of flattenObject.                                            *)
(***************************************************************************)
KeyPath(path, key) == IF path = <<>> THEN key ELSE path \o <<".">> \o key

\* the leaves of a value: what is not a mapping, with the keys that lead to it
RECURSIVE Leaves(_, _)
Leaves(v, path) ==
    IF v.t = "object"
    THEN UNION {Leaves(v.fields[i].val, KeyPath(path, v.fields[i].key)) :
                   i \in DOMAIN v.fields}
    ELSE {[path |-> path, val |-> v]}

IsPlaceholder(v) ==
    /\ v.t = "string"
    /\ \E i \in DOMAIN v.parts : v.parts[i] = "truncated for export"

\* v is the compact JSON text of an array of n items: brackets around the items,
\* a comma between two items and nothing else
IsCompactJsonOf(v, n) ==
    /\ v.t = "string"
    /\ ~IsPlaceholder(v)
    /\ Len(v.parts) = (IF n = 0 THEN 2 ELSE 2 * n + 1)
    /\ v.parts[1] = "[" /\ v.parts[Len(v.parts)] = "]"
    /\ \A i \in 2..(Len(v.parts) - 1) : (v.parts[i] = ",") <=> (i % 2 = 1)

\* what the claim says of the value stored for one leaf
FlattenedAsClaimed(leaf, stored) ==
    IF leaf.t = "array"
    THEN IF arrayLength(leaf.items) > 1000 THEN IsPlaceholder(stored)
         ELSE IF leaf.circular THEN stored.t = "string"
         ELSE IF stringifiedLength(leaf.items) > 100000 THEN IsPlaceholder(stored)
         ELSE IsCompactJsonOf(stored, arrayLength(leaf.items))
    ELSE stored = leaf

\* C35: flattenObject maps a record to a single-level mapping, deterministically:
\* the leaves of nested mappings under their '.'-joined key paths, an array of at
\* most 1000 items and at most 100,000 characters of JSON as its compact JSON
\* string, a longer or larger array as a truncation placeholder, scalars
\* unchanged; calling it again on the same record gives the same result.
C35_FlattenObjectSingleLevel ==
    /\ fo.phase \in {"once", "twice"}
          => LET leaves == Leaves(fo.record, <<>>)
                 flat == fo.first
             IN  /\ \A i \in DOMAIN flat : flat[i].val.t \notin {"object", "array"}
                 /\ {flat[i].key : i \in DOMAIN flat} = {l.path : l \in leaves}
                 /\ Len(flat) = Cardinality(leaves)
                 /\ \A i \in DOMAIN flat :
                       \E l \in leaves : /\ l.path = flat[i].key
                                          /\ FlattenedAsClaimed(l.val, flat[i].val)
    /\ fo.phase = "twice" => fo.second = fo.first

\* {a: {b: 1}, c: [1,2,3]} gives {"a.b": 1, "c": "[1,2,3]"}, both times
C35_Witness ==
    /\ fo.phase = "twice"
    /\ fo.record = Obj(<<Field(<<"a">>, Obj(<<Field(<<"b">>, Num(1))>>)),
                         Field(<<"c">>, ArrOneTwoThree)>>)
    /\ fo.second = <<Field(<<"a", ".", "b">>, Num(1)),
                     Field(<<"c">>, Text(<<"[", "1", ",", "2", ",", "3", "]">>))>>

(***************************************************************************)
(* Properties of withRetry: the success after retries.                     *)
(***************************************************************************)
\* invocations and suspensions alternate, from an invocation to an invocation
Alternates(t) ==
    /\ Len(t) % 2 = 1
    /\ \A i \in DOMAIN t : t[i] = (IF i % 2 = 1 THEN "call" ELSE "sleep")

\* C36: when the wrapped call succeeds at attempt k (0 <= k <= maxRetries) after
\* k retryable failures, withRetry returns that value after exactly k + 1
\* invocations and exactly k suspensions, each suspension between two consecutive
\* invocations; the call is not invoked again after the success and no
\* suspension follows the last invocation.
C36_SuccessAfterKFailures ==
    /\ [](wpc = "returned"
            => /\ attempt <= config.maxRetries
               /\ calls = attempt + 1
               /\ sleepCount = attempt
               /\ Len(trace) = 2 * attempt + 1
               /\ Alternates(trace)
               /\ outcome.kind = "value"
               /\ outcome.value = callValue
               /\ \E v \in Values : callValue = <<v>>
               /\ attempt > 0 => ClaimRetryable(lastError))
    /\ [][wpc = "returned" => UNCHANGED <<wpc, calls, sleepCount, trace, outcome>>]_vars

\* two retryable failures, then the success at attempt 2
C36_Witness ==
    /\ wpc = "returned"
    /\ attempt = 2
    /\ calls = 3
    /\ sleepCount = 2
    /\ trace = <<"call", "sleep", "call", "sleep", "call">>

(***************************************************************************)
(* Properties of streamCSVToFile: an input that fails, and the truncation  *)
(* flag.                                                                   *)
(***************************************************************************)
\* the run ended by an error that no fs call raised: the batch sequence failed
InputFailed == spc = "thrown" /\ \A i \in DOMAIN fsLog : fsLog[i].ok

\* C37: when the batch sequence raises an error in the middle of a run, the
\* error is raised to the caller and nothing is rolled back: once the header is
\* locked the file keeps the header and the rows of the batches written before
\* the failure; while still buffering no file is written or modified and the
\* buffered records are lost.
C37_InputFailureKeepsWhatWasWritten ==
    /\ [](InputFailed
            => /\ summary = Threw
               /\ isBuffering => /\ fsLog = <<>>
                                 /\ file \in {NoFile, StaleFile}
                                 /\ recordCount = 0
               /\ ~isBuffering => /\ file.exists
                                  /\ file.lines[1] = HeaderLine(headers.fields)
                                  /\ HeaderLines(file.lines) = 1
                                  /\ Len(file.lines) = Len(delivered) + 1
                                  /\ \A i \in DOMAIN delivered :
                                        file.lines[i + 1].count = delivered[i].count)
    /\ [][(spc = "iterating" /\ spc' = "thrown" /\ fsLog' = fsLog)
            => UNCHANGED <<file, recordCount, headers, isBuffering>>]_vars
    /\ [][spc = "thrown" => UNCHANGED <<spc, file, summary>>]_vars

\* the input failed after the header was locked and 1000 or more rows were written
C37_Witness ==
    /\ InputFailed
    /\ ~isBuffering
    /\ Len(fsLog) = 2
    /\ Length(delivered) >= INITIAL_BUFFER_SIZE
    /\ DataRows(file.lines) = Length(delivered)

\* the input failed while 600 records were buffered: the stale file is untouched
C37_WitnessBuffering ==
    /\ InputFailed
    /\ isBuffering
    /\ Length(buffer) > 0
    /\ file = StaleFile

\* a field of the record, at any depth, is a scalar string with the text of a
\* placeholder in it
RECURSIVE ScalarLooksTruncated(_)
ScalarLooksTruncated(fields) ==
    \E i \in DOMAIN fields :
        LET v == fields[i].val
        IN  \/ v.t = "object" /\ ScalarLooksTruncated(v.fields)
            \/ isTruncationMarker(v)

AnyLooksTruncated(runs) == \E i \in DOMAIN runs : ScalarLooksTruncated(runs[i].rec.fields)

\* C38: hadTruncation has no false positives: the run returns hadTruncation =
\* true only if flattening some record of the run produced a truncation or
\* serialization-fault placeholder for an array; scalar string values of the
\* records, whatever their content, never set the flag.
C38_HadTruncationOnlyForPlaceholders ==
    (spc = "returned" /\ summary.hadTruncation) => AnyReplaced(delivered)

\* what the code keeps: the flag is set only if an array was replaced or a
\* scalar string of a record holds the text the check looks for
C38_HoldsUpToScalarsWithMarkerText ==
    (spc = "returned" /\ summary.hadTruncation)
        => AnyReplaced(delivered) \/ AnyLooksTruncated(delivered)

(***************************************************************************)
(* Properties of exportProjectData: a listing that fails.                  *)
(***************************************************************************)
ListingSteps == {"projectsForExperiments", "projectsForDatasets", "experiments", "datasets"}

\* exportProjectData threw, and not because fs.mkdirSync did: fetchExperiments or
\* fetchDatasets threw
ListingFailed == epc = "thrown" /\ ~MkdirFaultOccurred

\* C39: when listing the experiments or the datasets of the project fails,
\* exportProjectData raises that error to its caller before any directory is
\* created, before any record-fetch request is issued and before any file is
\* written; the failure is not caught per entity.
C39_ListingFailureRaisedBeforeAnyOutput ==
    /\ [](ListingFailed
            => /\ raised # NoError
               /\ listingError # NoError => raised = makeRequestCatch(listingError)
               /\ listingError = NoError => raised.message = "Project not found"
               /\ report = MenuError
               /\ started = <<>> /\ ended = <<>> /\ ~fetched
               /\ run = RunNone
               /\ DOMAIN disk = {}
               /\ \A r \in inflight : r.page = 0)
    /\ [][(epc \in ListingSteps /\ epc' = "thrown" /\ ~MkdirFaultOccurred')
            => UNCHANGED <<dirs, disk, started, fetched>>]_vars
    /\ [][(epc \in (ListingSteps \ {"datasets"}))
            => UNCHANGED <<dirs, disk, started, fetched>>]_vars
    /\ [][(epc = "thrown") => UNCHANGED <<epc, raised, dirs, disk, started, fetched>>]_vars

\* the listing of the datasets failed after experiments had been listed, and no
\* directory exists
C39_Witness ==
    /\ ListingFailed
    /\ listingError # NoError
    /\ raised.hasResponse /\ raised.status = 503
    /\ Len(experiments) = 2
    /\ gets[Len(gets)].what = "dataset"
    /\ dirs = {}

(***************************************************************************)
(* Properties of the menu loop.                                            *)
(***************************************************************************)
\* the variable of the environment holds a value
HasValue(v) == v \notin {"", "undefined"}

\* the login case ended without a verified key
LoginFailed ==
    cli.pc = "main" /\ cli.shown \in {"Invalid API key", "Error: API key is required"}

\* the selectProject case ended by Back or by the third failed attempt
SelectionGivenUp ==
    cli.pc = "main" /\ cli.shown \in {"back", "Maximum retry attempts reached"}

\* C40: in the menu loop, for every sequence of menu choices, exportProjectData
\* is invoked only in a state where both an API key and a project name are set;
\* a failed or invalid login leaves the stored API key unchanged, and choosing
\* Back or exhausting the 3 project-id attempts leaves the stored project name
\* and id unchanged.
C40_MenuLoopKeepsSessionState ==
    /\ [](cli.exported.called
            => HasValue(cli.exported.apiKey) /\ HasValue(cli.exported.projectName))
    /\ [][(cli'.exported # cli.exported)
            => /\ cli'.pc = "exporting"
               /\ HasValue(cli.BRAINTRUST_API_KEY)
               /\ HasValue(cli.BRAINTRUST_PROJECT_NAME)
               /\ cli'.exported.apiKey = cli.BRAINTRUST_API_KEY
               /\ cli'.exported.projectName = cli.BRAINTRUST_PROJECT_NAME]_vars
    /\ [][(cli'.pc = "exporting" /\ cli.pc # "exporting")
            => cli'.exported.called /\ cli.pc = "dirPrompt"]_vars
    /\ [](LoginFailed => cli.BRAINTRUST_API_KEY = cli.before.key)
    /\ [][(cli'.BRAINTRUST_API_KEY # cli.BRAINTRUST_API_KEY)
            => cli.pc = "verifying" /\ cli'.shown = "API key verified and saved"]_vars
    /\ [](SelectionGivenUp
            => /\ cli.BRAINTRUST_PROJECT_NAME = cli.before.name
               /\ cli.BRAINTRUST_PROJECT_ID = cli.before.id)
    /\ [][(cli'.BRAINTRUST_PROJECT_NAME # cli.BRAINTRUST_PROJECT_NAME
           \/ cli'.BRAINTRUST_PROJECT_ID # cli.BRAINTRUST_PROJECT_ID)
            => cli'.shown = "Selected project"]_vars

\* exportProjectData was called for a project selected by its id, and a later
\* selection used up its three attempts
C40_Witness ==
    /\ cli.exported.called
    /\ cli.exported.projectNameOrId = "p2"
    /\ cli.exported.isId
    /\ SelectionGivenUp
    /\ cli.retryCount = maxRetries
    /\ cli.BRAINTRUST_PROJECT_NAME = "Alpha"

\* a key typed at the prompt was refused while no key was stored, and the
\* update of a stored key was refused
C40_WitnessInvalidTypedKey ==
    LoginFailed /\ cli.shown = "Invalid API key" /\ cli.apiKey = "K2" /\ cli.before.key = ""

C40_WitnessInvalidStoredKey ==
    LoginFailed /\ cli.shown = "Invalid API key" /\ cli.before.key = "K0"

C40_WitnessBack ==
    SelectionGivenUp /\ cli.shown = "back" /\ cli.projects # <<>> /\ cli.before.name = "Old"
====
